---- MODULE Spec2Model ----
(***************************************************************************)
(* microsoft-planner-mcp: the tool handlers of src/src/index.ts, the       *)
(* `az rest` command lines they build, and the Planner resources those     *)
(* commands read and write.                                                *)
(*                                                                         *)
(* Text is a sequence of tokens.  A token is one character where the       *)
(* character matters to JSON or to the shell (quotes, backslash, space,    *)
(* braces, colon, comma) and a whole word otherwise ("checklist", "T1").   *)
(* An optional value is a sequence of length 0 (undefined) or 1.           *)
(***************************************************************************)
EXTENDS Integers, Sequences, FiniteSets, TLC

VARIABLES store, call, uuidCtr, ncalls, nExt

vars == <<store, call, uuidCtr, ncalls, nExt>>

\* ------------------------------------------------------------------ bounds

\* Tool calls accepted over a run of two servers.
MaxCalls == 2

\* Tool calls accepted over a run of one server.
SoloCalls == 1

\* Writes by other clients of the upstream service over a run.
MaxExt == 1

\* Longest title list handed to add-checklist-items.
MaxItems == 2

\* ------------------------------------------------------------- option type

None == <<>>

Some(x) == <<x>>

IsSome(o) == Len(o) = 1

Val(o) == o[1]

\* ------------------------------------------------------------------- JSON

JStr(s) == <<"str", s>>

JNum(n) == <<"num", n>>

JBool(b) == <<"bool", b>>

JNull == <<"null">>

\* An object is the sequence of its <<key, value>> pairs in insertion order.
JObj(pairs) == <<"obj", pairs>>

EmptyObj == JObj(<<>>)

JArr(items) == <<"arr", items>>

HasKey(o, k) == \E i \in 1..Len(o[2]) : o[2][i][1] = k

KeysOf(o) == {o[2][i][1] : i \in 1..Len(o[2])}

Get(o, k) == o[2][CHOOSE i \in 1..Len(o[2]) : o[2][i][1] = k][2]

\* obj[k] = v: overwrite in place when k is present, append otherwise.
ObjSet(o, k, v) ==
    IF HasKey(o, k)
    THEN JObj([i \in 1..Len(o[2]) |-> IF o[2][i][1] = k THEN <<k, v>> ELSE o[2][i]])
    ELSE JObj(Append(o[2], <<k, v>>))

\* The escapes JSON.stringify applies inside a string literal.
RECURSIVE JsonEscape(_)
JsonEscape(s) ==
    IF s = <<>> THEN <<>>
    ELSE IF Len(s) = 1
         THEN (IF s[1] = "\"" THEN <<"\\", "\"">>
               ELSE IF s[1] = "\\" THEN <<"\\", "\\">>
               ELSE s)
    ELSE LET m == Len(s) \div 2
         IN JsonEscape(SubSeq(s, 1, m)) \o JsonEscape(SubSeq(s, m + 1, Len(s)))

RECURSIVE Stringify(_)
RECURSIVE StringifyPairs(_)
RECURSIVE StringifyItems(_)
\* JSON.stringify(v), no indentation.
Stringify(v) ==
    CASE v[1] = "str" -> <<"\"">> \o JsonEscape(v[2]) \o <<"\"">>
      [] v[1] = "num" -> <<ToString(v[2])>>
      [] v[1] = "bool" -> IF v[2] THEN <<"true">> ELSE <<"false">>
      [] v[1] = "null" -> <<"null">>
      [] v[1] = "obj" -> <<"{">> \o StringifyPairs(v[2]) \o <<"}">>
      [] v[1] = "arr" -> <<"[">> \o StringifyItems(v[2]) \o <<"]">>

StringifyPairs(ps) ==
    IF ps = <<>> THEN <<>>
    ELSE <<"\"">> \o JsonEscape(ps[1][1]) \o <<"\"", ":">> \o Stringify(ps[1][2])
         \o (IF Len(ps) > 1 THEN <<",">> \o StringifyPairs(Tail(ps)) ELSE <<>>)

StringifyItems(vs) ==
    IF vs = <<>> THEN <<>>
    ELSE Stringify(vs[1]) \o (IF Len(vs) > 1 THEN <<",">> \o StringifyItems(Tail(vs)) ELSE <<>>)

\* n spaces
RECURSIVE Spaces(_)
Spaces(n) == IF n = 0 THEN <<>> ELSE <<" ">> \o Spaces(n - 1)

RECURSIVE StringifyIndented(_, _)
RECURSIVE IndentedPairs(_, _)
RECURSIVE IndentedItems(_, _)
\* JSON.stringify(v, null, 2): v as it reads at nesting depth d.
StringifyIndented(v, d) ==
    CASE v[1] = "obj" /\ v[2] # <<>> ->
           <<"{", "\n">> \o IndentedPairs(v[2], d + 1) \o <<"\n">> \o Spaces(2 * d) \o <<"}">>
      [] v[1] = "arr" /\ v[2] # <<>> ->
           <<"[", "\n">> \o IndentedItems(v[2], d + 1) \o <<"\n">> \o Spaces(2 * d) \o <<"]">>
      [] OTHER -> Stringify(v)

IndentedPairs(ps, d) ==
    Spaces(2 * d) \o <<"\"">> \o JsonEscape(ps[1][1]) \o <<"\"", ":", " ">>
        \o StringifyIndented(ps[1][2], d)
        \o (IF Len(ps) > 1 THEN <<",", "\n">> \o IndentedPairs(Tail(ps), d) ELSE <<>>)

IndentedItems(vs, d) ==
    Spaces(2 * d) \o StringifyIndented(vs[1], d)
        \o (IF Len(vs) > 1 THEN <<",", "\n">> \o IndentedItems(Tail(vs), d) ELSE <<>>)

\* ------------------------------------------------------------------ shell

\* str.replace(/"/g, '\\"'), halving the text so that the evaluation stays shallow
RECURSIVE EscapeQuotes(_)
EscapeQuotes(s) ==
    IF s = <<>> THEN <<>>
    ELSE IF Len(s) = 1 THEN (IF s[1] = "\"" THEN <<"\\", "\"">> ELSE s)
    ELSE LET m == Len(s) \div 2
         IN EscapeQuotes(SubSeq(s, 1, m)) \o EscapeQuotes(SubSeq(s, m + 1, Len(s)))

\* args.join(" ")
RECURSIVE JoinArgs(_)
JoinArgs(args) ==
    IF args = <<>> THEN <<>>
    ELSE IF Len(args) = 1 THEN args[1]
    ELSE args[1] \o <<" ">> \o JoinArgs(Tail(args))

\* /bin/sh reading a command line.  mode is "U" (unquoted), "S" (inside '...')
\* or "D" (inside "..."); esc: the character before was a backslash that may
\* escape this one; cur is the word being read, inWord whether one has begun.
\* The alphabet of this model has no $ and no backquote.
ShStart == [mode |-> "U", esc |-> FALSE, cur |-> <<>>, inWord |-> FALSE, words |-> <<>>]

ShStep(s, c) ==
    CASE s.mode = "S" ->
           IF c = "'" THEN [s EXCEPT !.mode = "U"]
           ELSE [s EXCEPT !.cur = Append(s.cur, c)]
      [] s.mode = "D" /\ s.esc ->
           [s EXCEPT !.esc = FALSE,
                     !.cur = IF c \in {"\"", "\\"} THEN Append(s.cur, c)
                             ELSE s.cur \o <<"\\", c>>]
      [] s.mode = "D" /\ ~s.esc ->
           IF c = "\"" THEN [s EXCEPT !.mode = "U"]
           ELSE IF c = "\\" THEN [s EXCEPT !.esc = TRUE]
           ELSE [s EXCEPT !.cur = Append(s.cur, c)]
      [] s.mode = "U" /\ s.esc ->
           [s EXCEPT !.esc = FALSE, !.cur = Append(s.cur, c), !.inWord = TRUE]
      [] s.mode = "U" /\ ~s.esc ->
           IF c = " "
           THEN [s EXCEPT !.cur = <<>>, !.inWord = FALSE,
                          !.words = IF s.inWord THEN Append(s.words, s.cur) ELSE s.words]
           ELSE IF c = "'" THEN [s EXCEPT !.mode = "S", !.inWord = TRUE]
           ELSE IF c = "\"" THEN [s EXCEPT !.mode = "D", !.inWord = TRUE]
           ELSE IF c = "\\" THEN [s EXCEPT !.esc = TRUE, !.inWord = TRUE]
           ELSE [s EXCEPT !.cur = Append(s.cur, c), !.inWord = TRUE]

\* The scanner's state after characters lo..hi of cmd, read from state s: the
\* left half of the range, then the right half from where the left half ended
\* (the test on left.mode has the left half read before the right half starts).
RECURSIVE ShScan(_, _, _, _)
RECURSIVE ShScanRight(_, _, _, _)
ShScan(cmd, lo, hi, s) ==
    IF lo > hi THEN s
    ELSE IF lo = hi THEN ShStep(s, cmd[lo])
    ELSE ShScanRight(cmd, (lo + hi) \div 2 + 1, hi, ShScan(cmd, lo, (lo + hi) \div 2, s))

ShScanRight(cmd, lo, hi, left) ==
    IF left.mode = "U" THEN ShScan(cmd, lo, hi, left) ELSE ShScan(cmd, lo, hi, left)

\* The words read when the scanner stops in state s; an unterminated quote is a
\* syntax error.
ShEnd(s) ==
    IF s.mode # "U" THEN [ok |-> FALSE, words |-> <<>>]
    ELSE [ok |-> TRUE, words |-> IF s.inWord THEN Append(s.words, s.cur) ELSE s.words]

\* The words of a command line.
ShellWords(cmd) == ShEnd(ShScan(cmd, 1, Len(cmd), ShStart))

\* ------------------------------------------------------------- az rest

OptionWords == {<<"--method">>, <<"--url">>, <<"--headers">>, <<"--body">>}

IndexOf(words, w) ==
    IF \E i \in 1..Len(words) : words[i] = w
    THEN CHOOSE i \in 1..Len(words) : words[i] = w /\ \A j \in 1..(i - 1) : words[j] # w
    ELSE 0

\* The words after position i up to the next option word.
RECURSIVE ValuesAfter(_, _)
ValuesAfter(words, i) ==
    IF i + 1 > Len(words) \/ words[i + 1] \in OptionWords THEN <<>>
    ELSE <<words[i + 1]>> \o ValuesAfter(words, i + 1)

\* KEY=VALUE
ParseHeader(w) ==
    IF Len(w) >= 2 /\ w[2] = "="
    THEN [ok |-> TRUE, name |-> w[1], value |-> SubSeq(w, 3, Len(w))]
    ELSE [ok |-> FALSE, name |-> "", value |-> <<>>]

NoRequest == [ok |-> FALSE]

\* The HTTP request `az rest` makes of its arguments; it exits with a usage
\* error (no request) when they are not the options it knows, each with its value.
AzRestRequest(words) ==
    LET m == IndexOf(words, <<"--method">>)
        u == IndexOf(words, <<"--url">>)
        h == IndexOf(words, <<"--headers">>)
        b == IndexOf(words, <<"--body">>)
        hs == IF h = 0 THEN <<>> ELSE ValuesAfter(words, h)
        one(i) == Len(ValuesAfter(words, i)) = 1
        used == 2 + 2 + 2 + (IF h = 0 THEN 0 ELSE 1 + Len(hs)) + (IF b = 0 THEN 0 ELSE 2)
    IN IF /\ Len(words) >= 6
          /\ words[1] = <<"az">>
          /\ words[2] = <<"rest">>
          /\ m > 0 /\ one(m)
          /\ u > 0 /\ one(u)
          /\ (h > 0 => Len(hs) >= 1 /\ \A i \in 1..Len(hs) : ParseHeader(hs[i]).ok)
          /\ (b > 0 => one(b))
          /\ used = Len(words)
       THEN [ok |-> TRUE,
             method |-> words[m + 1],
             url |-> words[u + 1],
             headers |-> [i \in 1..Len(hs) |->
                            <<ParseHeader(hs[i]).name, ParseHeader(hs[i]).value>>],
             body |-> IF b = 0 THEN None ELSE Some(words[b + 1])]
       ELSE NoRequest

\* az run on what the shell made of the command line.
AzRest(sw) == IF sw.ok THEN AzRestRequest(sw.words) ELSE NoRequest

\* The value of header `name` of a request, if it carries one.
HeaderOf(req, name) ==
    IF \E i \in 1..Len(req.headers) : req.headers[i][1] = name
    THEN Some(req.headers[CHOOSE i \in 1..Len(req.headers) : req.headers[i][1] = name][2])
    ELSE None

\* execSync(command): the shell splits the command line and az turns the words
\* into one request; a shell syntax error or an az usage error sends nothing.
CommandRequest(cmd) == AzRest(ShellWords(cmd))

\* ------------------------------------------------------------------- URLs

TaskUrl(taskId) == <<"https://graph.microsoft.com/v1.0/planner/tasks/">> \o taskId

TaskDetailsUrl(taskId) ==
    <<"https://graph.microsoft.com/v1.0/planner/tasks/">> \o taskId \o <<"/details">>

BucketUrl(bucketId) == <<"https://graph.microsoft.com/v1.0/planner/buckets/">> \o bucketId

\* getETag's urlMap[resourceType]
ETagUrl(resourceType, resourceId) ==
    CASE resourceType = "task" -> TaskUrl(resourceId)
      [] resourceType = "taskDetails" -> TaskDetailsUrl(resourceId)
      [] resourceType = "bucket" -> BucketUrl(resourceId)

\* ------------------------------------------------------------ JSON.parse

ParseFail == [ok |-> FALSE, v |-> JNull, rest |-> <<>>]

\* Numbers a JSON text of this model can hold.
JsonNumbers == -1..101

\* The characters of a string literal after its opening quote.
RECURSIVE ParseStr(_, _)
ParseStr(ts, acc) ==
    IF ts = <<>> THEN ParseFail
    ELSE IF Head(ts) = "\"" THEN [ok |-> TRUE, v |-> acc, rest |-> Tail(ts)]
    ELSE IF Head(ts) = "\\"
         THEN IF Len(ts) >= 2 /\ ts[2] \in {"\"", "\\"}
              THEN ParseStr(SubSeq(ts, 3, Len(ts)), Append(acc, ts[2]))
              ELSE ParseFail
    ELSE ParseStr(Tail(ts), Append(acc, Head(ts)))

RECURSIVE ParseValue(_)
RECURSIVE ParseMembers(_, _)
RECURSIVE ParseElements(_, _)
RECURSIVE AfterKey(_, _)
RECURSIVE AfterMember(_, _, _)
RECURSIVE AfterElement(_, _)

\* A string literal read as a value.
StrValue(r) == IF r.ok THEN [ok |-> TRUE, v |-> JStr(r.v), rest |-> r.rest] ELSE ParseFail

ParseValue(ts) ==
    IF ts = <<>> THEN ParseFail
    ELSE CASE Head(ts) = "\"" -> StrValue(ParseStr(Tail(ts), <<>>))
           [] Head(ts) = "{" ->
                IF Len(ts) >= 2 /\ ts[2] = "}"
                THEN [ok |-> TRUE, v |-> EmptyObj, rest |-> SubSeq(ts, 3, Len(ts))]
                ELSE ParseMembers(Tail(ts), EmptyObj)
           [] Head(ts) = "[" ->
                IF Len(ts) >= 2 /\ ts[2] = "]"
                THEN [ok |-> TRUE, v |-> JArr(<<>>), rest |-> SubSeq(ts, 3, Len(ts))]
                ELSE ParseElements(Tail(ts), <<>>)
           [] Head(ts) = "true" -> [ok |-> TRUE, v |-> JBool(TRUE), rest |-> Tail(ts)]
           [] Head(ts) = "false" -> [ok |-> TRUE, v |-> JBool(FALSE), rest |-> Tail(ts)]
           [] Head(ts) = "null" -> [ok |-> TRUE, v |-> JNull, rest |-> Tail(ts)]
           [] OTHER ->
                IF \E n \in JsonNumbers : ToString(n) = Head(ts)
                THEN [ok |-> TRUE,
                      v |-> JNum(CHOOSE n \in JsonNumbers : ToString(n) = Head(ts)),
                      rest |-> Tail(ts)]
                ELSE ParseFail

\* "key":value pairs up to the closing brace; a repeated key keeps the last value.
ParseMembers(ts, obj) ==
    IF ts = <<>> \/ Head(ts) # "\"" THEN ParseFail
    ELSE AfterKey(ParseStr(Tail(ts), <<>>), obj)

\* After the key k of a member: the colon and the value.
AfterKey(k, obj) ==
    IF ~k.ok \/ k.rest = <<>> \/ Head(k.rest) # ":" THEN ParseFail
    ELSE AfterMember(k.v, ParseValue(Tail(k.rest)), obj)

\* After the value val of the member under key: the closing brace, or a comma
\* and the members that follow.
AfterMember(key, val, obj) ==
    IF ~val.ok \/ val.rest = <<>> THEN ParseFail
    ELSE IF Head(val.rest) = "}"
         THEN [ok |-> TRUE, v |-> ObjSet(obj, key, val.v), rest |-> Tail(val.rest)]
    ELSE IF Head(val.rest) = ","
         THEN ParseMembers(Tail(val.rest), ObjSet(obj, key, val.v))
    ELSE ParseFail

\* Values up to the closing bracket.
ParseElements(ts, items) == AfterElement(ParseValue(ts), items)

\* After the element val: the closing bracket, or a comma and the elements that
\* follow.
AfterElement(val, items) ==
    IF ~val.ok \/ val.rest = <<>> THEN ParseFail
    ELSE IF Head(val.rest) = "]"
         THEN [ok |-> TRUE, v |-> JArr(Append(items, val.v)), rest |-> Tail(val.rest)]
    ELSE IF Head(val.rest) = ","
         THEN ParseElements(Tail(val.rest), Append(items, val.v))
    ELSE ParseFail

\* A value read with nothing left over.
Whole(r) == IF r.ok /\ r.rest = <<>> THEN Some(r.v) ELSE None

\* The value a JSON text denotes, if it is JSON.
JsonParse(text) == Whole(ParseValue(text))

\* ------------------------------------------------------ upstream resources

TaskIds == {<<"T1">>}

BucketIds == {<<"B1">>}

PlanIds == {<<"P1">>}

GroupIds == {<<"G1">>}

\* The ids Planner gives the tasks it creates, in this order.
NewTaskIds == << <<"T2">> >>

\* The ids the groups service gives the conversations it creates, in this
\* order, and the id of the first thread of each.
ConversationIds == << <<"V1">>, <<"V2">> >>

ThreadIds == << <<"H1">>, <<"H2">> >>

\* The Planner resources a guarded tool writes.
Resources ==
    {<<"task", t>> : t \in TaskIds} \cup {<<"taskDetails", t>> : t \in TaskIds}
        \cup {<<"bucket", b>> : b \in BucketIds}

Plans == {<<"plan", p>> : p \in PlanIds}

Conversations == {<<"conversation", ConversationIds[i]>> : i \in 1..Len(ConversationIds)}

\* The tasks create-task can make.
NewTasks == {<<"task", NewTaskIds[i]>> : i \in 1..Len(NewTaskIds)}

TasksUrl == <<"https://graph.microsoft.com/v1.0/planner/tasks">>

PlanUrl(planId) == <<"https://graph.microsoft.com/v1.0/planner/plans/">> \o planId

ThreadsUrl(groupId, conversationId) ==
    <<"https://graph.microsoft.com/v1.0/groups/">> \o groupId \o <<"/conversations/">>
        \o conversationId \o <<"/threads">>

ReplyUrl(groupId, conversationId, threadId) ==
    <<"https://graph.microsoft.com/v1.0/groups/">> \o groupId \o <<"/conversations/">>
        \o conversationId \o <<"/threads/">> \o threadId \o <<"/reply">>

NewThreadUrl(groupId) ==
    <<"https://graph.microsoft.com/v1.0/groups/">> \o groupId \o <<"/threads">>

PostsUrl(groupId, conversationId, threadId) ==
    <<"https://graph.microsoft.com/v1.0/groups/">> \o groupId \o <<"/conversations/">>
        \o conversationId \o <<"/threads/">> \o threadId \o <<"/posts">>

PlanTasksUrl(planId) ==
    <<"https://graph.microsoft.com/v1.0/planner/plans/">> \o planId \o <<"/tasks">>

PlanBucketsUrl(planId) ==
    <<"https://graph.microsoft.com/v1.0/planner/plans/">> \o planId \o <<"/buckets">>

PlanDetailsUrl(planId) ==
    <<"https://graph.microsoft.com/v1.0/planner/plans/">> \o planId \o <<"/details">>

MyPlansUrl == <<"https://graph.microsoft.com/v1.0/me/planner/plans">>

MyTasksUrl == <<"https://graph.microsoft.com/v1.0/me/planner/tasks">>

MembersUrl(groupId) ==
    <<"https://graph.microsoft.com/v1.0/groups/">> \o groupId \o <<"/members">>

\* What a URL addresses: a stored resource, the task collection, the thread
\* list of a conversation, the thread collection of a group, the reply endpoint,
\* the posts of a thread, or one of the listings.
Route(url) ==
    IF url = TasksUrl
    THEN Some(<<"newTask">>)
    ELSE IF url = MyPlansUrl THEN Some(<<"list", "myPlans", <<>>>>)
    ELSE IF url = MyTasksUrl THEN Some(<<"list", "myTasks", <<>>>>)
    ELSE IF Len(url) = 3 /\ url = PlanTasksUrl(<<url[2]>>)
    THEN Some(<<"list", "tasks", <<url[2]>>>>)
    ELSE IF Len(url) = 3 /\ url = PlanBucketsUrl(<<url[2]>>)
    THEN Some(<<"list", "buckets", <<url[2]>>>>)
    ELSE IF Len(url) = 3 /\ url = PlanDetailsUrl(<<url[2]>>)
    THEN Some(<<"list", "planDetails", <<url[2]>>>>)
    ELSE IF Len(url) = 3 /\ url = MembersUrl(<<url[2]>>)
    THEN Some(<<"list", "members", <<url[2]>>>>)
    ELSE IF Len(url) = 7 /\ url = PostsUrl(<<url[2]>>, <<url[4]>>, <<url[6]>>)
    THEN Some(<<"posts", <<url[2]>>, <<url[4]>>, <<url[6]>>>>)
    ELSE IF Len(url) = 2 /\ url = TaskUrl(<<url[2]>>)
    THEN Some(<<"resource", <<"task", <<url[2]>>>>>>)
    ELSE IF Len(url) = 3 /\ url = TaskDetailsUrl(<<url[2]>>)
    THEN Some(<<"resource", <<"taskDetails", <<url[2]>>>>>>)
    ELSE IF Len(url) = 2 /\ url = BucketUrl(<<url[2]>>)
    THEN Some(<<"resource", <<"bucket", <<url[2]>>>>>>)
    ELSE IF Len(url) = 2 /\ url = PlanUrl(<<url[2]>>)
    THEN Some(<<"resource", <<"plan", <<url[2]>>>>>>)
    ELSE IF Len(url) = 3 /\ url = NewThreadUrl(<<url[2]>>)
    THEN Some(<<"newThread", <<url[2]>>>>)
    ELSE IF Len(url) = 5 /\ url = ThreadsUrl(<<url[2]>>, <<url[4]>>)
    THEN Some(<<"threads", <<url[2]>>, <<url[4]>>>>)
    ELSE IF Len(url) = 7 /\ url = ReplyUrl(<<url[2]>>, <<url[4]>>, <<url[6]>>)
    THEN Some(<<"reply", <<url[2]>>, <<url[4]>>, <<url[6]>>>>)
    ELSE None

\* The version stamp of a resource: weak-validator syntax around a value that
\* names the resource and its version.
EtagOf(r, ver) == <<"W/", "\"", r[1]>> \o r[2] \o <<ToString(ver), "\"">>

ObjDel(o, k) == JObj(SelectSeq(o[2], LAMBDA p : p[1] # k))

\* The service merging a delta into a resource: a key mapped to null is removed,
\* an object under a key that holds an object is merged into it, anything else
\* replaces what the key held; keys the delta does not name are left alone.
RECURSIVE Merge(_, _)
RECURSIVE MergePairs(_, _)
Merge(t, d) == MergePairs(t, d[2])

MergePairs(t, ps) ==
    IF ps = <<>> THEN t
    ELSE LET k == ps[1][1]
             v == ps[1][2]
             t1 == IF v[1] = "null" THEN ObjDel(t, k)
                   ELSE IF v[1] = "obj" /\ HasKey(t, k) /\ Get(t, k)[1] = "obj"
                        THEN ObjSet(t, k, Merge(Get(t, k), v))
                   ELSE ObjSet(t, k, v)
         IN MergePairs(t1, Tail(ps))

Exists(st, r) == r \in DOMAIN st /\ IsSome(st[r])

\* Removing a task removes its details with it.
Remove(st, r) ==
    [x \in DOMAIN st |->
        IF x = r \/ (r[1] = "task" /\ x = <<"taskDetails", r[2]>>) THEN None ELSE st[x]]

\* An answer: the status, the store afterwards, the JSON document of the answer
\* if it has one.
Reply(status, st, doc) == [status |-> status, store |-> st, doc |-> doc]

\* A stored resource as an answer shows it, with its version stamp.
Shown(r, x) == ObjSet(x.doc, <<"@odata.etag">>, JStr(EtagOf(r, x.ver)))

\* The resource r as the merge of delta into it leaves it.
Patched(cur, delta) == [ver |-> cur.ver + 1, doc |-> Merge(cur.doc, delta)]

\* The answer to a write that left resource r as new.
Written(st, r, new, verbose) ==
    Reply(IF verbose THEN 200 ELSE 204, [st EXCEPT ![r] = Some(new)],
          IF verbose THEN Some(Shown(r, new)) ELSE None)

\* One request on a stored resource, json being what its body reads as.
\* terse: the answer leaves out what the client did not ask for by name (here
\* the version stamp); verbose: the answer to a write carries the resource
\* instead of being empty.
ServeResource(st, req, r, json, terse, verbose) ==
    LET cur == Val(st[r])
        guard == HeaderOf(req, "If-Match")
    IN IF ~Exists(st, r) THEN Reply(404, st, None)
       ELSE CASE req.method = <<"GET">> ->
                   Reply(200, st, Some(IF terse THEN cur.doc ELSE Shown(r, cur)))
              [] req.method = <<"PATCH">> ->
                   IF guard # Some(EtagOf(r, cur.ver)) THEN Reply(412, st, None)
                   ELSE IF ~IsSome(json) \/ Val(json)[1] # "obj"
                        THEN Reply(400, st, None)
                   ELSE Written(st, r, Patched(cur, Val(json)), verbose)
              [] req.method = <<"DELETE">> ->
                   IF guard # Some(EtagOf(r, cur.ver)) THEN Reply(412, st, None)
                   ELSE Reply(IF verbose THEN 200 ELSE 204, Remove(st, r),
                              IF verbose THEN Some(Shown(r, cur)) ELSE None)
              [] OTHER -> Reply(405, st, None)

\* GET .../conversations/{c}/threads: the threads of a conversation.
\* terse: the answer of a conversation without threads has no list.
ServeThreads(st, req, g, c, terse) ==
    LET k == <<"conversation", c>>
    IN IF g \notin GroupIds \/ ~Exists(st, k) THEN Reply(404, st, None)
       ELSE IF req.method # <<"GET">> THEN Reply(405, st, None)
       ELSE IF terse /\ Get(Val(st[k]).doc, <<"threads">>)[2] = <<>>
            THEN Reply(200, st, Some(EmptyObj))
       ELSE Reply(200, st, Some(JObj(<< <<<<"value">>, Get(Val(st[k]).doc, <<"threads">>)>> >>)))

\* GET .../threads/{t}/posts: the posts of thread t, each with its id.
ServePosts(st, req, g, c, t) ==
    LET k == <<"conversation", c>>
        threads == Get(Val(st[k]).doc, <<"threads">>)[2]
        n == CHOOSE n \in 1..Len(threads) : Get(threads[n], <<"id">>) = JStr(t)
        posts == IF HasKey(threads[n], <<"posts">>) THEN Get(threads[n], <<"posts">>)[2]
                 ELSE <<>>
    IN IF g \notin GroupIds \/ ~Exists(st, k) THEN Reply(404, st, None)
       ELSE IF \A m \in 1..Len(threads) : Get(threads[m], <<"id">>) # JStr(t)
            THEN Reply(404, st, None)
       ELSE IF req.method # <<"GET">> THEN Reply(405, st, None)
       ELSE Reply(200, st,
                  Some(JObj(<< <<<<"value">>,
                                 JArr([i \in 1..Len(posts) |->
                                         ObjSet(posts[i], <<"id">>,
                                                JStr(<<"p", ToString(i)>>))])>> >>)))

\* POST .../planner/tasks: a new task with the fields posted.
ServeNewTask(st, req, json) ==
    LET free == {i \in 1..Len(NewTaskIds) : ~IsSome(st[<<"task", NewTaskIds[i]>>])}
        i == CHOOSE n \in free : \A m \in free : n <= m
        made == [ver |-> 1, doc |-> ObjSet(Val(json), <<"id">>, JStr(NewTaskIds[i]))]
    IN IF req.method # <<"POST">> THEN Reply(405, st, None)
       ELSE IF ~IsSome(json) \/ Val(json)[1] # "obj"
               \/ ~({<<"planId">>, <<"bucketId">>, <<"title">>} \subseteq KeysOf(Val(json)))
            THEN Reply(400, st, None)
       ELSE IF free = {} THEN Reply(429, st, None)
       ELSE Reply(201, [st EXCEPT ![<<"task", NewTaskIds[i]>>] = Some(made)],
                  Some(Shown(<<"task", NewTaskIds[i]>>, made)))

\* POST .../groups/{g}/threads: a new conversation holding the posted thread.
\* terse: the answer names the thread only, not the conversation around it.
ServeNewThread(st, req, g, json, terse) ==
    LET free == {i \in 1..Len(ConversationIds) :
                    ~IsSome(st[<<"conversation", ConversationIds[i]>>])}
        i == CHOOSE n \in free : \A m \in free : n <= m
        thread == ObjSet(Val(json), <<"id">>, JStr(ThreadIds[i]))
        made == [ver |-> 1, doc |-> JObj(<< <<<<"threads">>, JArr(<<thread>>)>> >>)]
        answer == JObj(<< <<<<"id">>, JStr(ThreadIds[i])>> >>)
    IN IF g \notin GroupIds THEN Reply(404, st, None)
       ELSE IF req.method # <<"POST">> THEN Reply(405, st, None)
       ELSE IF ~IsSome(json) \/ Val(json)[1] # "obj" THEN Reply(400, st, None)
       ELSE IF free = {} THEN Reply(429, st, None)
       ELSE Reply(201, [st EXCEPT ![<<"conversation", ConversationIds[i]>>] = Some(made)],
                  Some(IF terse THEN answer
                       ELSE ObjSet(answer, <<"conversationId">>, JStr(ConversationIds[i]))))

\* POST .../threads/{t}/reply: one more post on thread t.
ServeReply(st, req, g, c, t, json) ==
    LET k == <<"conversation", c>>
        cur == Val(st[k])
        threads == Get(cur.doc, <<"threads">>)[2]
        more(th) == ObjSet(th, <<"posts">>,
                           JArr(Append(IF HasKey(th, <<"posts">>)
                                       THEN Get(th, <<"posts">>)[2] ELSE <<>>,
                                       Get(Val(json), <<"post">>))))
        new == [ver |-> cur.ver + 1,
                doc |-> JObj(<< <<<<"threads">>,
                                  JArr([n \in 1..Len(threads) |->
                                          IF Get(threads[n], <<"id">>) = JStr(t)
                                          THEN more(threads[n]) ELSE threads[n]])>> >>)]
    IN IF g \notin GroupIds \/ ~Exists(st, k) THEN Reply(404, st, None)
       ELSE IF \A n \in 1..Len(threads) : Get(threads[n], <<"id">>) # JStr(t)
            THEN Reply(404, st, None)
       ELSE IF req.method # <<"POST">> THEN Reply(405, st, None)
       ELSE IF ~IsSome(json) \/ Val(json)[1] # "obj" \/ ~HasKey(Val(json), <<"post">>)
            THEN Reply(400, st, None)
       ELSE Reply(202, [st EXCEPT ![k] = Some(new)], None)

\* The stored resources of one kind, in the order the service lists them.
Listed(st, kind) ==
    LET ids == IF kind = "task" THEN <<<<"T1">>>> \o NewTaskIds
               ELSE IF kind = "bucket" THEN <<<<"B1">>>>
               ELSE <<<<"P1">>>>
        shown == [i \in 1..Len(ids) |->
                    IF Exists(st, <<kind, ids[i]>>)
                    THEN ObjSet(Shown(<<kind, ids[i]>>, Val(st[<<kind, ids[i]>>])),
                                <<"id">>, JStr(ids[i]))
                    ELSE JNull]
    IN SelectSeq(shown, LAMBDA d : d # JNull)

\* The user the Azure CLI is logged in as.
Me == <<"U2">>

\* The members of every group.
GroupMembers ==
    << JObj(<< <<<<"@odata.type">>, JStr(<<"#microsoft.graph.user">>)>>,
               <<<<"id">>, JStr(<<"U1">>)>>,
               <<<<"displayName">>, JStr(<<"a">>)>>,
               <<<<"mail">>, JStr(<<"a">>)>>,
               <<<<"userPrincipalName">>, JStr(<<"a">>)>> >>),
       JObj(<< <<<<"@odata.type">>, JStr(<<"#microsoft.graph.user">>)>>,
               <<<<"id">>, JStr(<<"U2">>)>>,
               <<<<"displayName">>, JStr(<<"b">>)>> >>) >>

\* The details of every plan.
PlanDetailsDoc ==
    JObj(<< <<<<"@odata.etag">>, JStr(<<"W/", "\"", "planDetails", "1", "\"">>)>>,
            <<<<"categoryDescriptions">>,
              JObj(<< <<<<"category1">>, JStr(<<"a">>)>> >>)>> >>)

\* GET of a listing: the tasks or buckets of a plan, the plans or tasks of the
\* logged-in user, the members of a group; and of the details of a plan.
ServeList(st, req, what, id) ==
    LET inPlan(d) == Get(d, <<"planId">>) = JStr(id)
        mine(d) == HasKey(d, <<"assignments">>) /\ HasKey(Get(d, <<"assignments">>), Me)
        value(items) == Some(JObj(<< <<<<"value">>, JArr(items)>> >>))
    IN IF req.method # <<"GET">> THEN Reply(405, st, None)
       ELSE CASE what = "myPlans" -> Reply(200, st, value(Listed(st, "plan")))
              [] what = "myTasks" ->
                   Reply(200, st, value(SelectSeq(Listed(st, "task"), mine)))
              [] what = "members" ->
                   IF id \in GroupIds THEN Reply(200, st, value(GroupMembers))
                   ELSE Reply(404, st, None)
              [] ~Exists(st, <<"plan", id>>) -> Reply(404, st, None)
              [] what = "tasks" ->
                   Reply(200, st, value(SelectSeq(Listed(st, "task"), inPlan)))
              [] what = "buckets" ->
                   Reply(200, st, value(SelectSeq(Listed(st, "bucket"), inPlan)))
              [] what = "planDetails" -> Reply(200, st, Some(PlanDetailsDoc))

\* The service answering a request for what its URL addresses.
Routed(st, req, to, json, terse, verbose) ==
    IF ~IsSome(to) THEN Reply(404, st, None)
    ELSE CASE to[1][1] = "resource" -> ServeResource(st, req, to[1][2], json, terse, verbose)
           [] to[1][1] = "threads" -> ServeThreads(st, req, to[1][2], to[1][3], terse)
           [] to[1][1] = "posts" -> ServePosts(st, req, to[1][2], to[1][3], to[1][4])
           [] to[1][1] = "newTask" -> ServeNewTask(st, req, json)
           [] to[1][1] = "list" -> ServeList(st, req, to[1][2], to[1][3])
           [] to[1][1] = "newThread" -> ServeNewThread(st, req, to[1][2], json, terse)
           [] to[1][1] = "reply" -> ServeReply(st, req, to[1][2], to[1][3], to[1][4], json)

\* The service answering one request against store st.
Serve(st, req, json, terse, verbose) == Routed(st, req, Route(req.url), json, terse, verbose)

\* -------------------------------------------------------- caller's inputs

Opt(S) == {None} \cup {Some(x) : x \in S}

\* Free text: empty, a letter, a double quote.
Texts == {<<>>, <<"a">>, <<"\"">>}

Percents == {-1, 0, 100, 101}

UserIds == {<<>>, <<"U1">>}

Categories == {<<>>, <<"category1">>, <<"category26">>}

ItemIds == {<<"c1">>, <<"c9">>}

TargetBuckets == {<<"B1">>, <<"B2">>}

RefUrls == {<<"h", ":", "/", "/", "a", ".", "b">>, <<"h", ":", "/", "/", "a", ".", "b", "/", "c">>}

RefTypes == {<<>>, <<"Other">>}

\* Sequences over S of length at most n.
SeqsUpTo(S, n) == UNION {[1..k -> S] : k \in 0..n}

\* ------------------------------------------------------- encodeURIComponent

\* Characters encodeURIComponent leaves as they are, among those of this model.
Unreserved ==
    {"a", "b", "c", "h", "A", "F", "2", "3", "5", "-", "_", ".", "!", "~", "*", "'", "(", ")"}

PercentCode(c) ==
    CASE c = ":" -> <<"%", "3", "A">>
      [] c = "/" -> <<"%", "2", "F">>
      [] c = "?" -> <<"%", "3", "F">>
      [] c = " " -> <<"%", "2", "0">>
      [] c = "\"" -> <<"%", "2", "2">>
      [] c = "%" -> <<"%", "2", "5">>

RECURSIVE EncodeURIComponent(_)
EncodeURIComponent(s) ==
    IF s = <<>> THEN <<>>
    ELSE (IF Head(s) \in Unreserved THEN <<Head(s)>> ELSE PercentCode(Head(s)))
         \o EncodeURIComponent(Tail(s))

encodeUrlForReference(url) == EncodeURIComponent(url)

\* randomUUID(): a value never returned before; n counts the values drawn so far.
randomUUID(n) == <<"uuid", ToString(n + 1)>>

\* ------------------------------------------------------------- handlers

\* How a call ends: the text it returns, or the message of the error it throws.
Ok(text) == Some([ok |-> TRUE, text |-> text])

Err(text) == Some([ok |-> FALSE, text |-> text])

\* error.message of a failed execSync
CommandFailed == <<"Command failed">>

\* What a guarded handler does around its getETag call and its execSync call:
\* the resource whose ETag it fetches, the request it builds, how many UUIDs it
\* draws, the text it returns when the command prints nothing (passThrough:
\* `result || text`, otherwise the text whatever was printed) and the prefix of
\* the error it throws when the command fails.
\* A handler whose catch returns the success text.
HandlerSwallowing(resourceType, resourceId, method, url, body, uuids, okText, passThrough, prefix) ==
    [resourceType |-> resourceType, resourceId |-> resourceId, method |-> method,
     url |-> url, body |-> body, uuids |-> uuids, okText |-> okText,
     passThrough |-> passThrough, onError |-> Ok(okText)]

Handler(resourceType, resourceId, method, url, body, uuids, okText, passThrough, prefix) ==
    [resourceType |-> resourceType, resourceId |-> resourceId, method |-> method,
     url |-> url, body |-> body, uuids |-> uuids, okText |-> okText,
     passThrough |-> passThrough, onError |-> Err(prefix \o CommandFailed)]

ChecklistItemType == JStr(<<"#microsoft.graph.plannerChecklistItem">>)

\* update-task: parameters as the schema admits them.
updateTaskSchema(a) ==
    IsSome(a.percentComplete) => Val(a.percentComplete) >= 0 /\ Val(a.percentComplete) <= 100

\* update-task testing percentComplete for truth, as it tests assignUserId.
updateTaskBodyTruthy(a) ==
    LET b0 == EmptyObj
        b1 == IF a.title # None THEN ObjSet(b0, <<"title">>, JStr(Val(a.title))) ELSE b0
        b2 == IF IsSome(a.percentComplete) /\ Val(a.percentComplete) # 0
              THEN ObjSet(b1, <<"percentComplete">>, JNum(Val(a.percentComplete)))
              ELSE b1
        b3 == IF IsSome(a.assignUserId) /\ Val(a.assignUserId) # <<>>
              THEN ObjSet(b2, <<"assignments">>,
                     JObj(<< <<Val(a.assignUserId),
                               JObj(<< <<<<"@odata.type">>,
                                         JStr(<<"#microsoft.graph.plannerAssignment">>)>>,
                                       <<<<"orderHint">>, JStr(<<" ", "!">>)>> >>)>> >>))
              ELSE b2
        b4 == IF IsSome(a.category) /\ Val(a.category) # <<>>
              THEN ObjSet(b3, <<"appliedCategories">>,
                     JObj(<< <<Val(a.category), JBool(TRUE)>> >>))
              ELSE b3
    IN b4

\* update-task sending the order hint without its leading space.
updateTaskBodyBareHint(a) ==
    LET b0 == EmptyObj
        b1 == IF a.title # None THEN ObjSet(b0, <<"title">>, JStr(Val(a.title))) ELSE b0
        b2 == IF a.percentComplete # None
              THEN ObjSet(b1, <<"percentComplete">>, JNum(Val(a.percentComplete)))
              ELSE b1
        b3 == IF IsSome(a.assignUserId) /\ Val(a.assignUserId) # <<>>
              THEN ObjSet(b2, <<"assignments">>,
                     JObj(<< <<Val(a.assignUserId),
                               JObj(<< <<<<"@odata.type">>,
                                         JStr(<<"#microsoft.graph.plannerAssignment">>)>>,
                                       <<<<"orderHint">>, JStr(<<"!">>)>> >>)>> >>))
              ELSE b2
        b4 == IF IsSome(a.category) /\ Val(a.category) # <<>>
              THEN ObjSet(b3, <<"appliedCategories">>,
                     JObj(<< <<Val(a.category), JBool(TRUE)>> >>))
              ELSE b3
    IN b4

\* update-task: the body built field by field.
updateTaskBody(a) ==
    LET b0 == EmptyObj
        b1 == IF a.title # None THEN ObjSet(b0, <<"title">>, JStr(Val(a.title))) ELSE b0
        b2 == IF a.percentComplete # None
              THEN ObjSet(b1, <<"percentComplete">>, JNum(Val(a.percentComplete)))
              ELSE b1
        b3 == IF IsSome(a.assignUserId) /\ Val(a.assignUserId) # <<>>
              THEN ObjSet(b2, <<"assignments">>,
                     JObj(<< <<Val(a.assignUserId),
                               JObj(<< <<<<"@odata.type">>,
                                         JStr(<<"#microsoft.graph.plannerAssignment">>)>>,
                                       <<<<"orderHint">>, JStr(<<" ", "!">>)>> >>)>> >>))
              ELSE b2
        b4 == IF IsSome(a.category) /\ Val(a.category) # <<>>
              THEN ObjSet(b3, <<"appliedCategories">>,
                     JObj(<< <<Val(a.category), JBool(TRUE)>> >>))
              ELSE b3
    IN b4

updateTask(a, n) ==
    Handler("task", a.taskId, "PATCH", TaskUrl(a.taskId), Some(updateTaskBody(a)), 0,
            <<"Task updated successfully">>, TRUE, <<"Update failed: ">>)

\* update-task-details fetching the ETag of the task instead of its details.
updateTaskDetailsWithTaskETag(a, n) ==
    [resourceType |-> "task", resourceId |-> a.taskId, method |-> "PATCH",
     url |-> TaskDetailsUrl(a.taskId),
     body |-> Some(JObj(<< <<<<"description">>, JStr(a.description)>> >>)), uuids |-> 0,
     okText |-> <<"Task details updated successfully">>, passThrough |-> TRUE,
     onError |-> Err(<<"Update details failed: ">> \o CommandFailed)]

updateTaskDetails(a, n) ==
    Handler("taskDetails", a.taskId, "PATCH", TaskDetailsUrl(a.taskId),
            Some(JObj(<< <<<<"description">>, JStr(a.description)>> >>)), 0,
            <<"Task details updated successfully">>, TRUE, <<"Update details failed: ">>)

addChecklistItemBody(a, itemId) ==
    JObj(<< <<<<"checklist">>,
              JObj(<< <<itemId,
                        JObj(<< <<<<"@odata.type">>, ChecklistItemType>>,
                                <<<<"title">>, JStr(a.title)>>,
                                <<<<"isChecked">>, JBool(a.isChecked)>> >>)>> >>)>> >>)

\* add-checklist-item drawing a second UUID for its answer.
addChecklistItemTwoIds(a, n) ==
    Handler("taskDetails", a.taskId, "PATCH", TaskDetailsUrl(a.taskId),
            Some(addChecklistItemBody(a, randomUUID(n))), 2,
            Stringify(JObj(<< <<<<"success">>, JBool(TRUE)>>,
                              <<<<"itemId">>, JStr(randomUUID(n + 1))>>,
                              <<<<"title">>, JStr(a.title)>> >>)),
            TRUE, <<"Add checklist item failed: ">>)

\* add-checklist-item: one UUID drawn after getETag, the key of the item in
\* the body and the itemId of the answer.
addChecklistItem(a, n) ==
    LET itemId == randomUUID(n)
    IN Handler("taskDetails", a.taskId, "PATCH", TaskDetailsUrl(a.taskId),
               Some(addChecklistItemBody(a, itemId)), 1,
               Stringify(JObj(<< <<<<"success">>, JBool(TRUE)>>,
                                 <<<<"itemId">>, JStr(itemId)>>,
                                 <<<<"title">>, JStr(a.title)>> >>)),
               TRUE, <<"Add checklist item failed: ">>)

\* add-checklist-items drawing its UUID once, before the loop.
RECURSIVE addChecklistItemsLoopOneId(_, _, _)
addChecklistItemsLoopOneId(items, n, checklist) ==
    IF items = <<>> THEN checklist
    ELSE addChecklistItemsLoopOneId(Tail(items), n,
           ObjSet(checklist, randomUUID(n),
                  JObj(<< <<<<"@odata.type">>, ChecklistItemType>>,
                          <<<<"title">>, JStr(Head(items))>>,
                          <<<<"isChecked">>, JBool(FALSE)>> >>)))

\* add-checklist-items: the loop over items, one UUID drawn per title.
RECURSIVE addChecklistItemsLoop(_, _, _)
addChecklistItemsLoop(items, n, checklist) ==
    IF items = <<>> THEN checklist
    ELSE addChecklistItemsLoop(Tail(items), n + 1,
           ObjSet(checklist, randomUUID(n),
                  JObj(<< <<<<"@odata.type">>, ChecklistItemType>>,
                          <<<<"title">>, JStr(Head(items))>>,
                          <<<<"isChecked">>, JBool(FALSE)>> >>)))

addChecklistItems(a, n) ==
    Handler("taskDetails", a.taskId, "PATCH", TaskDetailsUrl(a.taskId),
            Some(JObj(<< <<<<"checklist">>, addChecklistItemsLoop(a.items, n, EmptyObj)>> >>)),
            Len(a.items),
            Stringify(JObj(<< <<<<"success">>, JBool(TRUE)>>,
                              <<<<"itemCount">>, JNum(Len(a.items))>> >>)),
            TRUE, <<"Add checklist items failed: ">>)

updateChecklistItemBody(a) ==
    LET u0 == JObj(<< <<<<"@odata.type">>, ChecklistItemType>> >>)
        u1 == IF a.title # None THEN ObjSet(u0, <<"title">>, JStr(Val(a.title))) ELSE u0
        u2 == IF a.isChecked # None
              THEN ObjSet(u1, <<"isChecked">>, JBool(Val(a.isChecked)))
              ELSE u1
    IN JObj(<< <<<<"checklist">>, JObj(<< <<a.itemId, u2>> >>)>> >>)

updateChecklistItem(a, n) ==
    Handler("taskDetails", a.taskId, "PATCH", TaskDetailsUrl(a.taskId),
            Some(updateChecklistItemBody(a)), 0,
            <<"Checklist item updated successfully">>, TRUE,
            <<"Update checklist item failed: ">>)

\* delete-checklist-item nulling the checklist instead of the item.
deleteChecklistItemWholeMap(a, n) ==
    Handler("taskDetails", a.taskId, "PATCH", TaskDetailsUrl(a.taskId),
            Some(JObj(<< <<<<"checklist">>, JNull>> >>)), 0,
            <<"Checklist item deleted successfully">>, TRUE,
            <<"Delete checklist item failed: ">>)

deleteChecklistItem(a, n) ==
    Handler("taskDetails", a.taskId, "PATCH", TaskDetailsUrl(a.taskId),
            Some(JObj(<< <<<<"checklist">>, JObj(<< <<a.itemId, JNull>> >>)>> >>)), 0,
            <<"Checklist item deleted successfully">>, TRUE,
            <<"Delete checklist item failed: ">>)

deleteTask(a, n) ==
    Handler("task", a.taskId, "DELETE", TaskUrl(a.taskId), None, 0,
            <<"Task deleted successfully">>, FALSE, <<"Delete failed: ">>)

moveTask(a, n) ==
    Handler("task", a.taskId, "PATCH", TaskUrl(a.taskId),
            Some(JObj(<< <<<<"bucketId">>, JStr(a.bucketId)>> >>)), 0,
            <<"Task moved successfully">>, TRUE, <<"Move task failed: ">>)

updateBucket(a, n) ==
    Handler("bucket", a.bucketId, "PATCH", BucketUrl(a.bucketId),
            Some(JObj(<< <<<<"name">>, JStr(a.name)>> >>)), 0,
            <<"Bucket updated successfully">>, TRUE, <<"Update bucket failed: ">>)

deleteBucket(a, n) ==
    Handler("bucket", a.bucketId, "DELETE", BucketUrl(a.bucketId), None, 0,
            <<"Bucket deleted successfully">>, FALSE, <<"Delete bucket failed: ">>)

addReferenceBody(a) ==
    LET encodedUrl == encodeUrlForReference(a.url)
        r0 == JObj(<< <<<<"@odata.type">>,
                        JStr(<<"#microsoft.graph.plannerExternalReference">>)>> >>)
        r1 == IF IsSome(a.alias) /\ Val(a.alias) # <<>>
              THEN ObjSet(r0, <<"alias">>, JStr(Val(a.alias))) ELSE r0
        r2 == IF IsSome(a.type) /\ Val(a.type) # <<>>
              THEN ObjSet(r1, <<"type">>, JStr(Val(a.type))) ELSE r1
    IN JObj(<< <<<<"references">>, JObj(<< <<encodedUrl, r2>> >>)>> >>)

addReference(a, n) ==
    Handler("taskDetails", a.taskId, "PATCH", TaskDetailsUrl(a.taskId),
            Some(addReferenceBody(a)), 0,
            <<"Reference added successfully">>, TRUE, <<"Add reference failed: ">>)

\* delete-reference sending an empty reference instead of null.
deleteReferenceEmptied(a, n) ==
    Handler("taskDetails", a.taskId, "PATCH", TaskDetailsUrl(a.taskId),
            Some(JObj(<< <<<<"references">>,
                           JObj(<< <<encodeUrlForReference(a.url), EmptyObj>> >>)>> >>)), 0,
            <<"Reference deleted successfully">>, TRUE, <<"Delete reference failed: ">>)

\* delete-reference using the URL itself as the key.
deleteReferenceRawUrl(a, n) ==
    Handler("taskDetails", a.taskId, "PATCH", TaskDetailsUrl(a.taskId),
            Some(JObj(<< <<<<"references">>, JObj(<< <<a.url, JNull>> >>)>> >>)), 0,
            <<"Reference deleted successfully">>, TRUE, <<"Delete reference failed: ">>)

deleteReference(a, n) ==
    Handler("taskDetails", a.taskId, "PATCH", TaskDetailsUrl(a.taskId),
            Some(JObj(<< <<<<"references">>,
                           JObj(<< <<encodeUrlForReference(a.url), JNull>> >>)>> >>)), 0,
            <<"Reference deleted successfully">>, TRUE, <<"Delete reference failed: ">>)

\* add-task-comment: the body of the reply to an existing thread.
addTaskCommentReplyBody(a) ==
    JObj(<< <<<<"post">>,
              JObj(<< <<<<"body">>,
                        JObj(<< <<<<"contentType">>, JStr(<<"text">>)>>,
                                <<<<"content">>, JStr(a.comment)>> >>)>> >>)>> >>)

\* add-task-comment: the thread that starts a new conversation; a task without
\* title gives a thread without topic.
addTaskCommentThreadBody(a, task) ==
    LET posts == JArr(<< JObj(<< <<<<"body">>,
                                   JObj(<< <<<<"contentType">>, JStr(<<"text">>)>>,
                                           <<<<"content">>, JStr(a.comment)>> >>)>> >>) >>)
    IN JObj((IF HasKey(task, <<"title">>)
             THEN << <<<<"topic">>, Get(task, <<"title">>)>> >> ELSE <<>>)
            \o << <<<<"posts">>, posts>> >>)

\* create-task: the body posted.
createTaskBody(a) ==
    JObj(<< <<<<"planId">>, JStr(a.planId)>>,
            <<<<"bucketId">>, JStr(a.bucketId)>>,
            <<<<"title">>, JStr(a.title)>> >>)

\* x?.k: the field k of x when x is an object that has it, undefined otherwise.
Field(x, k) ==
    IF IsSome(x) /\ Val(x)[1] = "obj" /\ HasKey(Val(x), k) THEN Some(Get(Val(x), k)) ELSE None

\* a || b for values that may be undefined (a string is false when empty).
OrElse(a, b) ==
    IF IsSome(a) /\ Val(a) \notin {JNull, JStr(<<>>), JBool(FALSE), JNum(0)} THEN a ELSE b

\* An object literal as JSON.stringify shows it: without the keys whose value
\* is undefined.
Defined(pairs) ==
    JObj([i \in 1..Len(SelectSeq(pairs, LAMBDA q : IsSome(q[2]))) |->
            <<SelectSeq(pairs, LAMBDA q : IsSome(q[2]))[i][1],
              Val(SelectSeq(pairs, LAMBDA q : IsSome(q[2]))[i][2])>>])

\* get-task-comments: the entry pushed for one post of one thread.
commentOf(thread, post) ==
    Defined(<< <<<<"id">>, Field(Some(post), <<"id">>)>>,
               <<<<"threadId">>, Field(Some(thread), <<"id">>)>>,
               <<<<"content">>, Field(Field(Some(post), <<"body">>), <<"content">>)>>,
               <<<<"contentType">>, Field(Field(Some(post), <<"body">>), <<"contentType">>)>>,
               <<<<"createdDateTime">>, Field(Some(post), <<"createdDateTime">>)>>,
               <<<<"from">>,
                 OrElse(Field(Field(Field(Some(post), <<"from">>), <<"emailAddress">>),
                              <<"name">>),
                        Field(Field(Field(Some(post), <<"from">>), <<"emailAddress">>),
                              <<"address">>))>> >>)

\* get-task-comments: the answer for a task without conversation.
NoComments ==
    Stringify(JObj(<< <<<<"comments">>, JArr(<<>>)>>,
                      <<<<"message">>, JStr(<<"No comments on this task">>)>> >>))

\* The tools that make one GET and return what it gave.
SingleGetTools ==
    {"list-tasks", "get-task", "get-task-details", "list-buckets", "list-plans",
     "get-plan-details", "get-my-tasks"}

\* The tools that write nothing.
ReadOnlyTools == SingleGetTools \cup {"list-group-members", "get-task-comments"}

\* A tool of one GET asking for a deletion instead.
readToolDeleting(tool, a) ==
    CASE tool = "list-tasks" -> [method |-> "GET", url |-> PlanTasksUrl(a.planId), raw |-> FALSE]
      [] tool = "get-task" -> [method |-> "DELETE", url |-> TaskUrl(a.taskId), raw |-> TRUE]
      [] tool = "get-task-details" ->
           [method |-> "GET", url |-> TaskDetailsUrl(a.taskId), raw |-> TRUE]
      [] tool = "list-buckets" ->
           [method |-> "GET", url |-> PlanBucketsUrl(a.planId), raw |-> FALSE]
      [] tool = "list-plans" -> [method |-> "GET", url |-> MyPlansUrl, raw |-> FALSE]
      [] tool = "get-plan-details" ->
           [method |-> "GET", url |-> PlanDetailsUrl(a.planId), raw |-> TRUE]
      [] tool = "get-my-tasks" -> [method |-> "GET", url |-> MyTasksUrl, raw |-> FALSE]

\* The request of a tool of one GET, and whether it returns the answer as it
\* is (raw) or the answer's value re-serialized with indentation.
readTool(tool, a) ==
    CASE tool = "list-tasks" -> [method |-> "GET", url |-> PlanTasksUrl(a.planId), raw |-> FALSE]
      [] tool = "get-task" -> [method |-> "GET", url |-> TaskUrl(a.taskId), raw |-> TRUE]
      [] tool = "get-task-details" ->
           [method |-> "GET", url |-> TaskDetailsUrl(a.taskId), raw |-> TRUE]
      [] tool = "list-buckets" ->
           [method |-> "GET", url |-> PlanBucketsUrl(a.planId), raw |-> FALSE]
      [] tool = "list-plans" -> [method |-> "GET", url |-> MyPlansUrl, raw |-> FALSE]
      [] tool = "get-plan-details" ->
           [method |-> "GET", url |-> PlanDetailsUrl(a.planId), raw |-> TRUE]
      [] tool = "get-my-tasks" -> [method |-> "GET", url |-> MyTasksUrl, raw |-> FALSE]

\* list-group-members: what it keeps of one member.
memberOf(m) ==
    Defined(<< <<<<"id">>, Field(Some(m), <<"id">>)>>,
               <<<<"displayName">>, Field(Some(m), <<"displayName">>)>>,
               <<<<"userPrincipalName">>, Field(Some(m), <<"userPrincipalName">>)>> >>)

\* add-task-comment: writing the conversation id to the task.  The catch around
\* the command returns a success with a warning instead of throwing.
addTaskCommentAttach(a, l) ==
    LET conversationId == IF IsSome(l.conversationId)
                          THEN << <<<<"conversationId">>, Val(l.conversationId)>> >>
                          ELSE <<>>
        h == Handler("task", a.taskId, "PATCH", TaskUrl(a.taskId),
                     Some(JObj(IF IsSome(l.conversationId)
                               THEN << <<<<"conversationThreadId">>, Val(l.conversationId)>> >>
                               ELSE <<>>)), 0,
                     Stringify(JObj(<< <<<<"success">>, JBool(TRUE)>>,
                                       <<<<"message">>, JStr(<<"New conversation created">>)>> >>
                                    \o conversationId)),
                     FALSE, <<>>)
    IN [h EXCEPT !.onError =
          Ok(Stringify(JObj(<< <<<<"success">>, JBool(TRUE)>>,
                               <<<<"warning">>,
                                 JStr(<<"Thread created but task link may have failed">>)>> >>
                            \o conversationId)))]

\* ------------------------------------------------------------ tool registry

GuardedTools ==
    {"update-task", "update-task-details", "add-checklist-item", "add-checklist-items",
     "update-checklist-item", "delete-checklist-item", "delete-task", "move-task",
     "update-bucket", "delete-bucket", "add-reference", "delete-reference"}

\* The tools with a guarded write: the twelve above and add-task-comment, whose
\* last step is one.
MutationTools == GuardedTools \cup {"add-task-comment"}

\* The parameter values a caller hands to each tool.
ToolInputs(tool) ==
    CASE tool = "update-task" ->
           [taskId : TaskIds, title : Opt(Texts), percentComplete : Opt(Percents),
            assignUserId : Opt(UserIds), category : Opt(Categories)]
      [] tool = "update-task-details" -> [taskId : TaskIds, description : Texts]
      [] tool = "add-checklist-item" ->
           [taskId : TaskIds, title : Texts, isChecked : Opt(BOOLEAN)]
      [] tool = "add-checklist-items" ->
           [taskId : TaskIds, items : SeqsUpTo(Texts, MaxItems)]
      [] tool = "update-checklist-item" ->
           [taskId : TaskIds, itemId : ItemIds, title : Opt(Texts), isChecked : Opt(BOOLEAN)]
      [] tool = "delete-checklist-item" -> [taskId : TaskIds, itemId : ItemIds]
      [] tool = "delete-task" -> [taskId : TaskIds]
      [] tool = "move-task" -> [taskId : TaskIds, bucketId : TargetBuckets]
      [] tool = "update-bucket" -> [bucketId : BucketIds, name : Texts]
      [] tool = "delete-bucket" -> [bucketId : BucketIds]
      [] tool = "add-reference" ->
           [taskId : TaskIds, url : RefUrls, alias : Opt(Texts), type : Opt(RefTypes)]
      [] tool = "delete-reference" -> [taskId : TaskIds, url : RefUrls]
      [] tool = "add-task-comment" -> [taskId : TaskIds, comment : Texts]
      [] tool = "get-task-comments" -> [taskId : TaskIds]
      [] tool = "create-task" -> [planId : PlanIds, bucketId : BucketIds, title : Texts]
      [] tool \in {"get-task", "get-task-details"} -> [taskId : TaskIds]
      [] tool \in {"list-tasks", "list-buckets", "get-plan-details", "list-group-members"} ->
           [planId : PlanIds]
      [] tool \in {"list-plans", "get-my-tasks"} -> {<<>>}

\* One call of each tool, for the runs in which two calls meet.
PlainInputs(tool) ==
    {a \in ToolInputs(tool) :
        CASE tool = "update-task" ->
               /\ a.title = Some(<<"a">>) /\ a.percentComplete = None
               /\ a.assignUserId = None /\ a.category = None
          [] tool = "update-task-details" -> a.description = <<"a">>
          [] tool = "add-checklist-item" -> a.title = <<"a">> /\ a.isChecked = None
          [] tool = "add-checklist-items" -> a.items = << <<"a">> >>
          [] tool = "update-checklist-item" ->
               a.itemId = <<"c1">> /\ a.title = None /\ a.isChecked = Some(TRUE)
          [] tool = "delete-checklist-item" -> a.itemId = <<"c1">>
          [] tool = "move-task" -> a.bucketId = <<"B2">>
          [] tool = "update-bucket" -> a.name = <<"a">>
          [] tool = "add-reference" ->
               a.url = <<"h", ":", "/", "/", "a", ".", "b">> /\ a.alias = None /\ a.type = None
          [] tool = "delete-reference" -> a.url = <<"h", ":", "/", "/", "a", ".", "b">>
          [] tool = "add-task-comment" -> a.comment = <<"a">>
          [] OTHER -> TRUE}

\* The tool's parameter schema: whether the host lets the call through.
Schema(tool, a) ==
    CASE tool = "update-task" -> updateTaskSchema(a)
      [] OTHER -> TRUE

\* The parameters as execute receives them: add-checklist-item's isChecked is
\* optional with default false.
Parsed(tool, a) ==
    CASE tool = "add-checklist-item" ->
           [a EXCEPT !.isChecked = IF a.isChecked = None THEN FALSE ELSE Val(a.isChecked)]
      [] OTHER -> a

\* The guarded write of the call c, n UUIDs having been drawn before it.
HandlerOf(c, n) ==
    CASE c.tool = "update-task" -> updateTask(c.args, n)
      [] c.tool = "update-task-details" -> updateTaskDetails(c.args, n)
      [] c.tool = "add-checklist-item" -> addChecklistItem(c.args, n)
      [] c.tool = "add-checklist-items" -> addChecklistItems(c.args, n)
      [] c.tool = "update-checklist-item" -> updateChecklistItem(c.args, n)
      [] c.tool = "delete-checklist-item" -> deleteChecklistItem(c.args, n)
      [] c.tool = "delete-task" -> deleteTask(c.args, n)
      [] c.tool = "move-task" -> moveTask(c.args, n)
      [] c.tool = "update-bucket" -> updateBucket(c.args, n)
      [] c.tool = "delete-bucket" -> deleteBucket(c.args, n)
      [] c.tool = "add-reference" -> addReference(c.args, n)
      [] c.tool = "delete-reference" -> deleteReference(c.args, n)
      [] c.tool = "add-task-comment" -> addTaskCommentAttach(c.args, c.local)

\* ------------------------------------------------------------ command lines

Quoted(q, s) == <<q>> \o s \o <<q>>

\* azRest's command: the body, when there is one, in double quotes with its
\* double quotes backslash-escaped.
azRestCommand(method, url, body) ==
    JoinArgs(<< <<"az", " ", "rest", " ", "--method", " ", method, " ", "--url", " ">>
                  \o Quoted("\"", url) >>
             \o (IF IsSome(body)
                 THEN << <<"--headers", " ">>
                           \o Quoted("\"", <<"Content-Type", "=", "application/json">>)
                           \o <<" ", "--body", " ">>
                           \o Quoted("\"", EscapeQuotes(Stringify(Val(body)))) >>
                 ELSE <<>>))

\* The ETag put between the double quotes as it came.
EscapeEtagForgotten(etag) == etag

\* The ETag as it is put between the double quotes of the If-Match argument.
EscapeEtag(etag) == EscapeQuotes(etag)

\* The command of a guarded write: PATCH with a JSON body in single quotes, or
\* DELETE with the If-Match header alone.
GuardedCommand(method, url, etag, body) ==
    LET escapedEtag == EscapeEtag(etag)
        ifMatch == Quoted("\"", <<"If-Match", "=">> \o escapedEtag)
    IN JoinArgs(<< <<"az", " ", "rest", " ", "--method", " ", method, " ", "--url", " ">>
                     \o Quoted("\"", url) >>
                \o (IF IsSome(body)
                    THEN << <<"--headers", " ">>
                              \o Quoted("\"", <<"Content-Type", "=", "application/json">>)
                              \o <<" ">> \o ifMatch,
                            <<"--body", " ">> \o Quoted("'", Stringify(Val(body))) >>
                    ELSE << <<"--headers", " ">> \o ifMatch >>))

\* The version stamp an answer carries, if it carries one.
StampOf(doc) ==
    IF IsSome(doc) /\ HasKey(Val(doc), <<"@odata.etag">>)
    THEN Some(Get(Val(doc), <<"@odata.etag">>)[2]) ELSE None

\* The body of a request as the service reads it.
Received(req) == IF req.ok /\ IsSome(req.body) THEN JsonParse(Val(req.body)) ELSE None

\* What comes back for a request.  down: the transport fails and the service is
\* not reached (status 0).
Answer(st, req, json, down, terse, verbose) ==
    IF req.ok /\ ~down THEN Serve(st, req, json, terse, verbose) ELSE Reply(0, st, None)

\* threw: the command exited non-zero.  out: what it printed.  entry: the
\* request it made, with the answer's status, version stamp and document, for
\* the log.
Outcome(req, json, rep) ==
    [threw |-> ~(req.ok /\ rep.status >= 200 /\ rep.status < 300),
     sent |-> req.ok,
     store |-> rep.store,
     out |-> IF IsSome(rep.doc) THEN Stringify(Val(rep.doc)) ELSE <<>>,
     entry |-> IF req.ok
               THEN [method |-> req.method[1], url |-> req.url,
                     ifMatch |-> HeaderOf(req, "If-Match"),
                     hasBody |-> IsSome(req.body), json |-> json,
                     status |-> rep.status, etag |-> StampOf(rep.doc),
                     answer |-> rep.doc]
               ELSE [method |-> "none"]]

Transport(st, req, json, down, terse, verbose) ==
    Outcome(req, json, Answer(st, req, json, down, terse, verbose))

\* One request made of the service.
Request(st, req, down, terse, verbose) ==
    Transport(st, req, Received(req), down, terse, verbose)

\* execSync of one `az rest` command against store st: the shell, az, the
\* service.
ExecSync(st, cmd, down, terse, verbose) ==
    Request(st, CommandRequest(cmd), down, terse, verbose)

\* ------------------------------------------------------------------ state

Servers == {1, 2}

\* What a handler holds between its requests.
NoLocals ==
    [task |-> None, groupId |-> None, threadId |-> None, conversationId |-> None,
     threads |-> <<>>, comments |-> <<>>]

\* A call: the tool, the parameters as given and as parsed, where the handler
\* stands, what it holds, the requests it has made, how it ended.
Idle == [pc |-> "idle", tool |-> "", given |-> <<>>, args |-> <<>>, local |-> NoLocals,
         etag |-> None, log |-> <<>>, result |-> None]

Str(s) == JStr(s)

InitTask ==
    JObj(<< <<<<"planId">>, Str(<<"P1">>)>>,
            <<<<"bucketId">>, Str(<<"B1">>)>>,
            <<<<"title">>, Str(<<"t">>)>>,
            <<<<"percentComplete">>, JNum(50)>>,
            <<<<"assignments">>,
              JObj(<< <<<<"U2">>,
                        JObj(<< <<<<"@odata.type">>,
                                  Str(<<"#microsoft.graph.plannerAssignment">>)>>,
                                <<<<"orderHint">>, Str(<<"8">>)>> >>)>> >>)>>,
            <<<<"appliedCategories">>, JObj(<< <<<<"category2">>, JBool(TRUE)>> >>)>> >>)

InitDetails ==
    JObj(<< <<<<"description">>, Str(<<"d">>)>>,
            <<<<"checklist">>,
              JObj(<< <<<<"c1">>,
                        JObj(<< <<<<"@odata.type">>, ChecklistItemType>>,
                                <<<<"title">>, Str(<<"t">>)>>,
                                <<<<"isChecked">>, JBool(FALSE)>> >>)>>,
                      <<<<"c2">>,
                        JObj(<< <<<<"@odata.type">>, ChecklistItemType>>,
                                <<<<"title">>, Str(<<"t">>)>>,
                                <<<<"isChecked">>, JBool(TRUE)>> >>)>> >>)>>,
            <<<<"references">>,
              JObj(<< <<EncodeURIComponent(<<"h", ":", "/", "/", "a", ".", "b">>),
                        JObj(<< <<<<"@odata.type">>,
                                  Str(<<"#microsoft.graph.plannerExternalReference">>)>>,
                                <<<<"alias">>, Str(<<"t">>)>> >>)>>,
                      <<<<"k">>,
                        JObj(<< <<<<"@odata.type">>,
                                  Str(<<"#microsoft.graph.plannerExternalReference">>)>> >>)>> >>)>> >>)

InitBucket ==
    JObj(<< <<<<"name">>, Str(<<"t">>)>>,
            <<<<"planId">>, Str(<<"P1">>)>>,
            <<<<"orderHint">>, Str(<<" ", "!">>)>> >>)

InitPlan ==
    JObj(<< <<<<"title">>, Str(<<"t">>)>>,
            <<<<"container">>,
              JObj(<< <<<<"containerId">>, Str(<<"G1">>)>>,
                      <<<<"type">>, Str(<<"group">>)>> >>)>> >>)

InitDoc(r) ==
    CASE r[1] = "task" -> InitTask
      [] r[1] = "taskDetails" -> InitDetails
      [] r[1] = "bucket" -> InitBucket
      [] r[1] = "plan" -> InitPlan

Init ==
    /\ store = [r \in Resources \cup Plans \cup Conversations \cup NewTasks |->
                  IF r \in Conversations \cup NewTasks THEN None
                  ELSE Some([ver |-> 1, doc |-> InitDoc(r)])]
    /\ call = [p \in Servers |-> Idle]
    /\ uuidCtr = 0
    /\ ncalls = 0
    /\ nExt = 0

\* ---------------------------------------------------------------- actions

\* The call's log with the request x made, if it made one.
Logged(log, x) == IF x.sent THEN Append(log, x.entry) ELSE log

AzRestFailed == Err(<<"az rest failed: ">> \o CommandFailed)

\* if (value): the field holds a string that is not empty.
Truthy(doc, key) == HasKey(doc, key) /\ Get(doc, key)[1] = "str" /\ Get(doc, key)[2] # <<>>

\* A server that keeps what its last call looked up: the group id and the token.
AcceptRemembering(p, tool, a) ==
    /\ call[p].pc \in {"idle", "done"}
    /\ call' = [call EXCEPT ![p] =
                  IF Schema(tool, a)
                  THEN [Idle EXCEPT !.pc = IF tool \in {"add-task-comment", "get-task-comments"}
                                           THEN "readTask"
                                           ELSE IF tool = "create-task" THEN "createTask"
                                           ELSE IF tool \in SingleGetTools THEN "read"
                                           ELSE IF tool = "list-group-members" THEN "getGroup"
                                           ELSE "getETag",
                                    !.tool = tool, !.given = a, !.args = Parsed(tool, a),
                                    !.etag = call[p].etag,
                                    !.local.groupId = call[p].local.groupId]
                  ELSE [Idle EXCEPT !.pc = "done", !.tool = tool, !.given = a, !.args = a,
                                    !.result = Err(<<"Invalid parameters">>)]]
    /\ ncalls' = ncalls + 1
    /\ UNCHANGED <<store, uuidCtr, nExt>>

\* The host hands a call of tool with parameters a to server p: it checks the
\* parameters against the tool's schema and, if they pass, runs execute.
Accept(p, tool, a) ==
    /\ call[p].pc \in {"idle", "done"}
    /\ call' = [call EXCEPT ![p] =
                  IF Schema(tool, a)
                  THEN [Idle EXCEPT !.pc = IF tool \in {"add-task-comment", "get-task-comments"}
                                           THEN "readTask"
                                           ELSE IF tool = "create-task" THEN "createTask"
                                           ELSE IF tool \in SingleGetTools THEN "read"
                                           ELSE IF tool = "list-group-members" THEN "getGroup"
                                           ELSE "getETag",
                                    !.tool = tool, !.given = a, !.args = Parsed(tool, a)]
                  ELSE [Idle EXCEPT !.pc = "done", !.tool = tool, !.given = a, !.args = a,
                                    !.result = Err(<<"Invalid parameters">>)]]
    /\ ncalls' = ncalls + 1
    /\ UNCHANGED <<store, uuidCtr, nExt>>

\* One call of a guarded tool, with any parameters.
Invoke(p) ==
    /\ ncalls < SoloCalls
    /\ \E tool \in GuardedTools : \E a \in ToolInputs(tool) : Accept(p, tool, a)

\* One of several calls, of any tool with a guarded write.
InvokePlain(p) ==
    /\ ncalls < MaxCalls
    /\ \E tool \in MutationTools : \E a \in PlainInputs(tool) : Accept(p, tool, a)

\* getETag fetching the resource and answering with the ETag the resource had
\* at first.
GetETagRemembered(p) ==
    /\ call[p].pc = "getETag"
    /\ \E down \in BOOLEAN, terse \in BOOLEAN :
       \E h \in {HandlerOf(call[p], uuidCtr)} :
       \E x \in {ExecSync(store, azRestCommand("GET", ETagUrl(h.resourceType, h.resourceId),
                                               None), down, terse, FALSE)} :
       \E result \in {IF x.threw THEN None ELSE JsonParse(x.out)} :
         call' = [call EXCEPT
                    ![p].log = Logged(@, x),
                    ![p].pc = IF result = None THEN "done" ELSE "write",
                    ![p].result = IF x.threw THEN AzRestFailed
                                  ELSE IF result = None THEN Err(<<"SyntaxError">>)
                                  ELSE None,
                    ![p].etag = IF IsSome(StampOf(result))
                                THEN Some(EtagOf(<<h.resourceType, h.resourceId>>, 1))
                                ELSE None]
    /\ UNCHANGED <<store, uuidCtr, ncalls, nExt>>

\* getETag answering with the wildcard when it finds no ETag.
GetETagLenient(p) ==
    /\ call[p].pc = "getETag"
    /\ \E down \in BOOLEAN, terse \in BOOLEAN :
       \E h \in {HandlerOf(call[p], uuidCtr)} :
       \E x \in {ExecSync(store, azRestCommand("GET", ETagUrl(h.resourceType, h.resourceId),
                                               None), down, terse, FALSE)} :
       \E result \in {IF x.threw THEN None ELSE JsonParse(x.out)} :
         call' = [call EXCEPT
                    ![p].log = Logged(@, x),
                    ![p].pc = "write",
                    ![p].etag = IF IsSome(StampOf(result)) THEN StampOf(result)
                                ELSE Some(<<"*">>)]
    /\ UNCHANGED <<store, uuidCtr, ncalls, nExt>>

\* getETag(resourceType, resourceId): GET the resource, parse what the command
\* printed and read "@odata.etag".  azRest throws when the command fails; a
\* body without the field gives undefined.  (h, x and result are bound once, as
\* the handler's constants are.)
GetETag(p) ==
    /\ call[p].pc = "getETag"
    /\ \E down \in BOOLEAN, terse \in BOOLEAN :
       \E h \in {HandlerOf(call[p], uuidCtr)} :
       \E x \in {ExecSync(store, azRestCommand("GET", ETagUrl(h.resourceType, h.resourceId),
                                               None), down, terse, FALSE)} :
       \E result \in {IF x.threw THEN None ELSE JsonParse(x.out)} :
         call' = [call EXCEPT
                    ![p].log = Logged(@, x),
                    ![p].pc = IF result = None THEN "done" ELSE "write",
                    ![p].result = IF x.threw THEN AzRestFailed
                                  ELSE IF result = None THEN Err(<<"SyntaxError">>)
                                  ELSE None,
                    ![p].etag = StampOf(result)]
    /\ UNCHANGED <<store, uuidCtr, ncalls, nExt>>

\* A guarded handler that fetches the ETag again when its command fails.
GuardedWriteRetrying(p) ==
    /\ call[p].pc = "write"
    /\ \E h \in {HandlerOf(call[p], uuidCtr)} :
         /\ uuidCtr' = uuidCtr + h.uuids
         /\ IF call[p].etag = None
            THEN /\ call' = [call EXCEPT ![p].pc = "done", ![p].result = Err(<<"TypeError">>)]
                 /\ store' = store
            ELSE \E down \in BOOLEAN, verbose \in BOOLEAN :
                 \E x \in {ExecSync(store, GuardedCommand(h.method, h.url, Val(call[p].etag),
                                                          h.body), down, FALSE, verbose)} :
                   /\ call' = [call EXCEPT
                         ![p].pc = IF x.threw THEN "getETag" ELSE "done",
                         ![p].log = Logged(@, x),
                         ![p].result =
                            IF x.threw THEN None
                            ELSE IF h.passThrough /\ x.out # <<>> THEN Ok(x.out)
                            ELSE Ok(h.okText)]
                   /\ store' = x.store
    /\ UNCHANGED <<ncalls, nExt>>

\* The rest of a guarded handler: build the body, escape the ETag, run the
\* PATCH or DELETE command, return what it printed or the success text, or
\* throw the prefixed error (add-task-comment: return the warning).
\* etag.replace throws a TypeError when getETag gave undefined.
GuardedWrite(p) ==
    /\ call[p].pc = "write"
    /\ \E h \in {HandlerOf(call[p], uuidCtr)} :
         /\ uuidCtr' = uuidCtr + h.uuids
         /\ IF call[p].etag = None
            THEN /\ call' = [call EXCEPT ![p].pc = "done", ![p].result = Err(<<"TypeError">>)]
                 /\ store' = store
            ELSE \E down \in BOOLEAN, verbose \in BOOLEAN :
                 \E x \in {ExecSync(store, GuardedCommand(h.method, h.url, Val(call[p].etag),
                                                          h.body), down, FALSE, verbose)} :
                   /\ call' = [call EXCEPT
                         ![p].pc = "done",
                         ![p].log = Logged(@, x),
                         ![p].result =
                            IF x.threw THEN h.onError
                            ELSE IF h.passThrough /\ x.out # <<>> THEN Ok(x.out)
                            ELSE Ok(h.okText)]
                   /\ store' = x.store
    /\ UNCHANGED <<ncalls, nExt>>

\* A get-task-comments that resolves the group whatever the task names.
ReadTaskThenGroup(p) ==
    /\ call[p].pc = "readTask"
    /\ \E down \in BOOLEAN :
       \E x \in {ExecSync(store, azRestCommand("GET", TaskUrl(call[p].args.taskId), None),
                          down, FALSE, FALSE)} :
       \E task \in {IF x.threw THEN None ELSE JsonParse(x.out)} :
         call' = [call EXCEPT
                    ![p].log = Logged(@, x),
                    ![p].pc = IF task = None THEN "done" ELSE "getGroup",
                    ![p].result = IF x.threw THEN AzRestFailed
                                  ELSE IF task = None THEN Err(<<"SyntaxError">>)
                                  ELSE None,
                    ![p].local.task = task]
    /\ UNCHANGED <<store, uuidCtr, ncalls, nExt>>

\* add-task-comment and get-task-comments: GET the task and parse it;
\* get-task-comments returns when the task names no conversation.
ReadTask(p) ==
    /\ call[p].pc = "readTask"
    /\ \E down \in BOOLEAN :
       \E x \in {ExecSync(store, azRestCommand("GET", TaskUrl(call[p].args.taskId), None),
                          down, FALSE, FALSE)} :
       \E task \in {IF x.threw THEN None ELSE JsonParse(x.out)} :
         call' = [call EXCEPT
                    ![p].log = Logged(@, x),
                    ![p].pc = IF task = None THEN "done"
                              ELSE IF call[p].tool = "get-task-comments"
                                      /\ ~Truthy(Val(task), <<"conversationThreadId">>)
                                   THEN "done"
                              ELSE "getGroup",
                    ![p].result = IF x.threw THEN AzRestFailed
                                  ELSE IF task = None THEN Err(<<"SyntaxError">>)
                                  ELSE IF call[p].tool = "get-task-comments"
                                          /\ ~Truthy(Val(task), <<"conversationThreadId">>)
                                       THEN Ok(NoComments)
                                  ELSE None,
                    ![p].local.task = task]
    /\ UNCHANGED <<store, uuidCtr, ncalls, nExt>>

\* getGroupIdFromPlan(planId), planId being the parameter of list-group-members
\* and task.planId in the comment tools: GET the plan, read
\* container.containerId; then the handler's branch on
\* task.conversationThreadId.
GetGroupIdFromPlan(p) ==
    /\ call[p].pc = "getGroup"
    /\ \E down \in BOOLEAN :
       \E task \in {IF call[p].tool = "list-group-members"
                    THEN JObj(<< <<<<"planId">>, JStr(call[p].args.planId)>> >>)
                    ELSE Val(call[p].local.task)} :
       \E x \in {ExecSync(store, azRestCommand("GET", PlanUrl(Get(task, <<"planId">>)[2]),
                                               None), down, FALSE, FALSE)} :
       \E plan \in {IF x.threw THEN None ELSE JsonParse(x.out)} :
         call' = [call EXCEPT
                    ![p].log = Logged(@, x),
                    ![p].pc = IF plan = None THEN "done"
                              ELSE IF call[p].tool = "list-group-members" THEN "readMembers"
                              ELSE IF call[p].tool = "get-task-comments" THEN "readThreads"
                              ELSE IF Truthy(task, <<"conversationThreadId">>)
                                   THEN "listThreads"
                              ELSE "createThread",
                    ![p].result = IF x.threw THEN AzRestFailed
                                  ELSE IF plan = None THEN Err(<<"SyntaxError">>)
                                  ELSE None,
                    ![p].local.groupId =
                        IF plan = None THEN None
                        ELSE Some(Get(Get(Val(plan), <<"container">>), <<"containerId">>)[2])]
    /\ UNCHANGED <<store, uuidCtr, ncalls, nExt>>

\* add-task-comment starting a new conversation when the one the task names
\* has no threads.
ListThreadsStartingAnew(p) ==
    /\ call[p].pc = "listThreads"
    /\ \E down \in BOOLEAN, terse \in BOOLEAN :
       \E l \in {call[p].local} :
       \E x \in {ExecSync(store,
                          azRestCommand("GET",
                              ThreadsUrl(Val(l.groupId),
                                         Get(Val(l.task), <<"conversationThreadId">>)[2]),
                              None), down, terse, FALSE)} :
       \E threadsResult \in {IF x.threw THEN None ELSE JsonParse(x.out)} :
       \E value \in {IF IsSome(Field(threadsResult, <<"value">>))
                     THEN Val(Field(threadsResult, <<"value">>))[2] ELSE <<>>} :
         call' = [call EXCEPT
                    ![p].log = Logged(@, x),
                    ![p].pc = IF x.threw \/ threadsResult = None THEN "done"
                              ELSE IF value = <<>> THEN "createThread"
                              ELSE "reply",
                    ![p].result =
                        IF x.threw THEN AzRestFailed
                        ELSE IF threadsResult = None THEN Err(<<"SyntaxError">>)
                        ELSE None,
                    ![p].local.threadId =
                        IF value = <<>> THEN None ELSE Some(Get(value[1], <<"id">>)[2])]
    /\ UNCHANGED <<store, uuidCtr, ncalls, nExt>>

\* add-task-comment, the task has a conversation: GET its threads and take the
\* first one's id.
ListThreads(p) ==
    /\ call[p].pc = "listThreads"
    /\ \E down \in BOOLEAN, terse \in BOOLEAN :
       \E l \in {call[p].local} :
       \E x \in {ExecSync(store,
                          azRestCommand("GET",
                              ThreadsUrl(Val(l.groupId),
                                         Get(Val(l.task), <<"conversationThreadId">>)[2]),
                              None), down, terse, FALSE)} :
       \E threadsResult \in {IF x.threw THEN None ELSE JsonParse(x.out)} :
       \E value \in {IF IsSome(Field(threadsResult, <<"value">>))
                     THEN Val(Field(threadsResult, <<"value">>))[2] ELSE <<>>} :
         call' = [call EXCEPT
                    ![p].log = Logged(@, x),
                    ![p].pc = IF value = <<>> THEN "done" ELSE "reply",
                    ![p].result =
                        IF x.threw THEN AzRestFailed
                        ELSE IF threadsResult = None THEN Err(<<"SyntaxError">>)
                        ELSE IF value = <<>>
                             THEN Err(<<"Conversation exists but has no threads">>)
                        ELSE None,
                    ![p].local.threadId =
                        IF value = <<>> THEN None ELSE Some(Get(value[1], <<"id">>)[2])]
    /\ UNCHANGED <<store, uuidCtr, ncalls, nExt>>

\* An add-task-comment that writes the conversation to the task again after
\* its reply.
PostReplyThenAttach(p) ==
    /\ call[p].pc = "reply"
    /\ \E down \in BOOLEAN :
       \E l \in {call[p].local} :
       \E x \in {ExecSync(store,
                          azRestCommand("POST",
                              ReplyUrl(Val(l.groupId),
                                       Get(Val(l.task), <<"conversationThreadId">>)[2],
                                       Val(l.threadId)),
                              Some(addTaskCommentReplyBody(call[p].args))),
                          down, FALSE, FALSE)} :
         /\ call' = [call EXCEPT
                       ![p].log = Logged(@, x),
                       ![p].pc = IF x.threw THEN "done" ELSE "getETag",
                       ![p].result = IF x.threw THEN AzRestFailed ELSE None,
                       ![p].local.conversationId =
                          Some(Get(Val(l.task), <<"conversationThreadId">>))]
         /\ store' = x.store
    /\ UNCHANGED <<uuidCtr, ncalls, nExt>>

\* add-task-comment, the task has a conversation: POST the reply.
PostReply(p) ==
    /\ call[p].pc = "reply"
    /\ \E down \in BOOLEAN :
       \E l \in {call[p].local} :
       \E x \in {ExecSync(store,
                          azRestCommand("POST",
                              ReplyUrl(Val(l.groupId),
                                       Get(Val(l.task), <<"conversationThreadId">>)[2],
                                       Val(l.threadId)),
                              Some(addTaskCommentReplyBody(call[p].args))),
                          down, FALSE, FALSE)} :
         /\ call' = [call EXCEPT
                       ![p].log = Logged(@, x),
                       ![p].pc = "done",
                       ![p].result =
                          IF x.threw THEN AzRestFailed
                          ELSE Ok(Stringify(JObj(<< <<<<"success">>, JBool(TRUE)>>,
                                 <<<<"message">>,
                                   JStr(<<"Comment added to existing thread">>)>> >>)))]
         /\ store' = x.store
    /\ UNCHANGED <<uuidCtr, ncalls, nExt>>

\* add-task-comment taking the id of the created thread although the answer
\* names the conversation.
CreateThreadTakingId(p) ==
    /\ call[p].pc = "createThread"
    /\ \E down \in BOOLEAN, terse \in BOOLEAN :
       \E l \in {call[p].local} :
       \E x \in {ExecSync(store,
                          azRestCommand("POST", NewThreadUrl(Val(l.groupId)),
                              Some(addTaskCommentThreadBody(call[p].args, Val(l.task)))),
                          down, terse, FALSE)} :
       \E threadResult \in {IF x.threw THEN None ELSE JsonParse(x.out)} :
         /\ call' = [call EXCEPT
                       ![p].log = Logged(@, x),
                       ![p].pc = IF threadResult = None THEN "done" ELSE "getETag",
                       ![p].result = IF x.threw THEN AzRestFailed
                                     ELSE IF threadResult = None THEN Err(<<"SyntaxError">>)
                                     ELSE None,
                       ![p].local.conversationId =
                          IF threadResult = None THEN None
                          ELSE IF Truthy(Val(threadResult), <<"id">>)
                               THEN Some(Get(Val(threadResult), <<"id">>))
                          ELSE IF HasKey(Val(threadResult), <<"conversationId">>)
                               THEN Some(Get(Val(threadResult), <<"conversationId">>))
                          ELSE None]
         /\ store' = x.store
    /\ UNCHANGED <<uuidCtr, ncalls, nExt>>

\* add-task-comment, the task has no conversation: POST a thread and take the
\* conversation id of the answer, or the thread's id when it names none.
CreateThread(p) ==
    /\ call[p].pc = "createThread"
    /\ \E down \in BOOLEAN, terse \in BOOLEAN :
       \E l \in {call[p].local} :
       \E x \in {ExecSync(store,
                          azRestCommand("POST", NewThreadUrl(Val(l.groupId)),
                              Some(addTaskCommentThreadBody(call[p].args, Val(l.task)))),
                          down, terse, FALSE)} :
       \E threadResult \in {IF x.threw THEN None ELSE JsonParse(x.out)} :
         /\ call' = [call EXCEPT
                       ![p].log = Logged(@, x),
                       ![p].pc = IF threadResult = None THEN "done" ELSE "getETag",
                       ![p].result = IF x.threw THEN AzRestFailed
                                     ELSE IF threadResult = None THEN Err(<<"SyntaxError">>)
                                     ELSE None,
                       ![p].local.conversationId =
                          IF threadResult = None THEN None
                          ELSE IF Truthy(Val(threadResult), <<"conversationId">>)
                               THEN Some(Get(Val(threadResult), <<"conversationId">>))
                          ELSE IF HasKey(Val(threadResult), <<"id">>)
                               THEN Some(Get(Val(threadResult), <<"id">>))
                          ELSE None]
         /\ store' = x.store
    /\ UNCHANGED <<uuidCtr, ncalls, nExt>>

\* get-task-comments: GET the threads of the task's conversation; iterating a
\* list that is not there throws a TypeError, an empty one ends the loop.
ReadThreads(p) ==
    /\ call[p].pc = "readThreads"
    /\ \E down \in BOOLEAN, terse \in BOOLEAN :
       \E l \in {call[p].local} :
       \E x \in {ExecSync(store,
                          azRestCommand("GET",
                              ThreadsUrl(Val(l.groupId),
                                         Get(Val(l.task), <<"conversationThreadId">>)[2]),
                              None), down, terse, FALSE)} :
       \E threadsResult \in {IF x.threw THEN None ELSE JsonParse(x.out)} :
       \E value \in {Field(threadsResult, <<"value">>)} :
         call' = [call EXCEPT
                    ![p].log = Logged(@, x),
                    ![p].pc = IF IsSome(value) /\ Val(value)[2] # <<>> THEN "readPosts"
                              ELSE "done",
                    ![p].result =
                        IF x.threw THEN AzRestFailed
                        ELSE IF threadsResult = None THEN Err(<<"SyntaxError">>)
                        ELSE IF value = None THEN Err(<<"TypeError">>)
                        ELSE IF Val(value)[2] = <<>>
                             THEN Ok(StringifyIndented(JArr(<<>>), 0))
                        ELSE None,
                    ![p].local.threads = IF IsSome(value) THEN Val(value)[2] ELSE <<>>]
    /\ UNCHANGED <<store, uuidCtr, ncalls, nExt>>

\* get-task-comments putting the entries of each thread before those it has.
ReadPostsNewestFirst(p) ==
    /\ call[p].pc = "readPosts"
    /\ \E down \in BOOLEAN :
       \E l \in {call[p].local} :
       \E thread \in {Head(l.threads)} :
       \E x \in {ExecSync(store,
                          azRestCommand("GET",
                              PostsUrl(Val(l.groupId),
                                       Get(Val(l.task), <<"conversationThreadId">>)[2],
                                       Get(thread, <<"id">>)[2]),
                              None), down, FALSE, FALSE)} :
       \E postsResult \in {IF x.threw THEN None ELSE JsonParse(x.out)} :
       \E value \in {Field(postsResult, <<"value">>)} :
       \E comments \in {IF IsSome(value)
                        THEN [i \in 1..Len(Val(value)[2]) |->
                                commentOf(thread, Val(value)[2][i])] \o l.comments
                        ELSE l.comments} :
         call' = [call EXCEPT
                    ![p].log = Logged(@, x),
                    ![p].pc = IF IsSome(value) /\ Len(l.threads) > 1 THEN "readPosts"
                              ELSE "done",
                    ![p].result =
                        IF x.threw THEN AzRestFailed
                        ELSE IF postsResult = None THEN Err(<<"SyntaxError">>)
                        ELSE IF value = None THEN Err(<<"TypeError">>)
                        ELSE IF Len(l.threads) > 1 THEN None
                        ELSE Ok(StringifyIndented(JArr(comments), 0)),
                    ![p].local.threads = Tail(l.threads),
                    ![p].local.comments = comments]
    /\ UNCHANGED <<store, uuidCtr, ncalls, nExt>>

\* get-task-comments: GET the posts of the next thread and push an entry for
\* each; after the last thread return the entries.
ReadPosts(p) ==
    /\ call[p].pc = "readPosts"
    /\ \E down \in BOOLEAN :
       \E l \in {call[p].local} :
       \E thread \in {Head(l.threads)} :
       \E x \in {ExecSync(store,
                          azRestCommand("GET",
                              PostsUrl(Val(l.groupId),
                                       Get(Val(l.task), <<"conversationThreadId">>)[2],
                                       Get(thread, <<"id">>)[2]),
                              None), down, FALSE, FALSE)} :
       \E postsResult \in {IF x.threw THEN None ELSE JsonParse(x.out)} :
       \E value \in {Field(postsResult, <<"value">>)} :
       \E comments \in {IF IsSome(value)
                        THEN l.comments \o [i \in 1..Len(Val(value)[2]) |->
                                              commentOf(thread, Val(value)[2][i])]
                        ELSE l.comments} :
         call' = [call EXCEPT
                    ![p].log = Logged(@, x),
                    ![p].pc = IF IsSome(value) /\ Len(l.threads) > 1 THEN "readPosts"
                              ELSE "done",
                    ![p].result =
                        IF x.threw THEN AzRestFailed
                        ELSE IF postsResult = None THEN Err(<<"SyntaxError">>)
                        ELSE IF value = None THEN Err(<<"TypeError">>)
                        ELSE IF Len(l.threads) > 1 THEN None
                        ELSE Ok(StringifyIndented(JArr(comments), 0)),
                    ![p].local.threads = Tail(l.threads),
                    ![p].local.comments = comments]
    /\ UNCHANGED <<store, uuidCtr, ncalls, nExt>>

\* create-task: POST the task, return what the command printed.
CreateTask(p) ==
    /\ call[p].pc = "createTask"
    /\ \E down \in BOOLEAN :
       \E x \in {ExecSync(store, azRestCommand("POST", TasksUrl,
                                               Some(createTaskBody(call[p].args))),
                          down, FALSE, FALSE)} :
         /\ call' = [call EXCEPT
                       ![p].log = Logged(@, x),
                       ![p].pc = "done",
                       ![p].result = IF x.threw THEN AzRestFailed ELSE Ok(x.out)]
         /\ store' = x.store
    /\ UNCHANGED <<uuidCtr, ncalls, nExt>>

\* A tool of one GET: run the command; return what it printed, or parse it and
\* return its value indented (nothing, when the answer has no value).
ReadOnly(p) ==
    /\ call[p].pc = "read"
    /\ \E down \in BOOLEAN :
       \E h \in {readTool(call[p].tool, call[p].args)} :
       \E x \in {ExecSync(store, azRestCommand(h.method, h.url, None), down, FALSE, FALSE)} :
       \E result \in {IF x.threw \/ h.raw THEN None ELSE JsonParse(x.out)} :
       \E value \in {Field(result, <<"value">>)} :
         /\ call' = [call EXCEPT
                       ![p].log = Logged(@, x),
                       ![p].pc = "done",
                       ![p].result =
                          IF x.threw THEN AzRestFailed
                          ELSE IF h.raw THEN Ok(x.out)
                          ELSE IF result = None THEN Err(<<"SyntaxError">>)
                          ELSE IF value = None THEN Ok(<<>>)
                          ELSE Ok(StringifyIndented(Val(value), 0))]
         /\ store' = x.store
    /\ UNCHANGED <<uuidCtr, ncalls, nExt>>

\* list-group-members: GET the members of the group, keep three fields of each.
ReadMembers(p) ==
    /\ call[p].pc = "readMembers"
    /\ \E down \in BOOLEAN :
       \E x \in {ExecSync(store, azRestCommand("GET", MembersUrl(Val(call[p].local.groupId)),
                                               None), down, FALSE, FALSE)} :
       \E result \in {IF x.threw THEN None ELSE JsonParse(x.out)} :
       \E value \in {Field(result, <<"value">>)} :
         /\ call' = [call EXCEPT
                       ![p].log = Logged(@, x),
                       ![p].pc = "done",
                       ![p].result =
                          IF x.threw THEN AzRestFailed
                          ELSE IF result = None THEN Err(<<"SyntaxError">>)
                          ELSE IF value = None THEN Err(<<"TypeError">>)
                          ELSE Ok(StringifyIndented(
                                    JArr([i \in 1..Len(Val(value)[2]) |->
                                            memberOf(Val(value)[2][i])]), 0))]
         /\ store' = x.store
    /\ UNCHANGED <<uuidCtr, ncalls, nExt>>

\* Another client of the service writes resource r.
ExternalWrite ==
    /\ nExt < MaxExt
    /\ \E r \in Resources :
         /\ Exists(store, r)
         /\ store' = [store EXCEPT ![r] =
                        Some([ver |-> Val(store[r]).ver + 1,
                              doc |-> ObjSet(Val(store[r]).doc, <<"touched">>, JBool(TRUE))])]
    /\ nExt' = nExt + 1
    /\ UNCHANGED <<call, uuidCtr, ncalls>>

\* One server, one call of a guarded tool with any parameters.
Next ==
    \/ Invoke(1)
    \/ GetETag(1)
    \/ GuardedWrite(1)
    \/ ExternalWrite

Spec == Init /\ [][Next]_vars

\* Two servers on the same account, calls of all tools with a guarded write.
NextConc ==
    \/ \E p \in Servers :
         \/ InvokePlain(p)
         \/ GetETag(p)
         \/ GuardedWrite(p)
         \/ ReadTask(p)
         \/ GetGroupIdFromPlan(p)
         \/ ListThreads(p)
         \/ PostReply(p)
         \/ CreateThread(p)
    \/ ExternalWrite

SpecConc == Init /\ [][NextConc]_vars

\* The tools that read or write comments, and create-task.
CommentTools == {"add-task-comment", "get-task-comments", "create-task"}

\* One call of a tool that is not a guarded one, with any parameters.
InvokeComments(p) ==
    /\ ncalls < SoloCalls
    /\ \E tool \in CommentTools : \E a \in ToolInputs(tool) : Accept(p, tool, a)

\* A conversation as the groups service holds it: one thread with one post.
OneThread ==
    JObj(<< <<<<"threads">>,
              JArr(<< JObj(<< <<<<"topic">>, Str(<<"t">>)>>,
                              <<<<"posts">>,
                                JArr(<< JObj(<< <<<<"body">>,
                                   JObj(<< <<<<"contentType">>, Str(<<"text">>)>>,
                                           <<<<"content">>, Str(<<"c">>)>> >>)>> >>) >>)>>,
                              <<<<"id">>, Str(ThreadIds[1])>> >>) >>)>> >>)

\* A post with the text c.
PostOf(c) ==
    JObj(<< <<<<"body">>,
              JObj(<< <<<<"contentType">>, Str(<<"text">>)>>,
                      <<<<"content">>, Str(c)>> >>)>> >>)

\* A conversation of two threads, listed in this order: the later one, with two
\* posts, then the first one, with one post.
TwoThreads ==
    JObj(<< <<<<"threads">>,
              JArr(<< JObj(<< <<<<"topic">>, Str(<<"t">>)>>,
                              <<<<"posts">>, JArr(<< PostOf(<<"c">>), PostOf(<<"d">>) >>)>>,
                              <<<<"id">>, Str(ThreadIds[2])>> >>),
                      JObj(<< <<<<"topic">>, Str(<<"t">>)>>,
                              <<<<"posts">>, JArr(<< PostOf(<<"e">>) >>)>>,
                              <<<<"id">>, Str(ThreadIds[1])>> >>) >>)>> >>)

\* A conversation without threads.
NoThreads == JObj(<< <<<<"threads">>, JArr(<<>>)>> >>)

\* The task names no conversation, or one with a thread, or one with two, or
\* one without.
InitComments ==
    /\ \E shape \in {"none", "thread", "threads", "empty"} :
         store = [r \in Resources \cup Plans \cup Conversations \cup NewTasks |->
                    IF r \in NewTasks THEN None
                    ELSE IF r \in Conversations
                    THEN (IF shape = "none" \/ r[2] # ConversationIds[1] THEN None
                          ELSE Some([ver |-> 1,
                                     doc |-> IF shape = "thread" THEN OneThread
                                             ELSE IF shape = "threads" THEN TwoThreads
                                             ELSE NoThreads]))
                    ELSE IF r[1] = "task" /\ shape # "none"
                    THEN Some([ver |-> 1,
                               doc |-> ObjSet(InitTask, <<"conversationThreadId">>,
                                              Str(ConversationIds[1]))])
                    ELSE Some([ver |-> 1, doc |-> InitDoc(r)])]
    /\ call = [p \in Servers |-> Idle]
    /\ uuidCtr = 0
    /\ ncalls = 0
    /\ nExt = 0

\* One server, one call of a comment tool or of create-task.
NextComments ==
    \/ InvokeComments(1)
    \/ ReadTask(1)
    \/ GetGroupIdFromPlan(1)
    \/ ListThreads(1)
    \/ PostReply(1)
    \/ CreateThread(1)
    \/ GetETag(1)
    \/ GuardedWrite(1)
    \/ ReadThreads(1)
    \/ ReadPosts(1)
    \/ CreateTask(1)
    \/ ExternalWrite

SpecComments == InitComments /\ [][NextComments]_vars

\* The calls one server takes one after the other in the runs of read-only
\* tools.
MaxReads == 2

\* One more call of a read-only tool.
InvokeRead(p) ==
    /\ ncalls < MaxReads
    /\ \E tool \in ReadOnlyTools : \E a \in ToolInputs(tool) : Accept(p, tool, a)

\* One server, calls of read-only tools one after the other.
NextRead ==
    \/ InvokeRead(1)
    \/ ReadOnly(1)
    \/ ReadTask(1)
    \/ GetGroupIdFromPlan(1)
    \/ ReadThreads(1)
    \/ ReadPosts(1)
    \/ ReadMembers(1)

SpecRead == InitComments /\ [][NextRead]_vars

\* The invocation in slot q is between its first request and its result.
Running(q) == call[q].pc \notin {"idle", "done"} /\ call[q].log # <<>>

\* A process whose handlers give way to one another between their requests.
TurnAnyTime(p) == TRUE

\* The two slots taken as invocations handed to one process: execute has no
\* await and execSync blocks, so the process runs nothing of invocation p while
\* another invocation is between its first request and its result.
Turn(p) == \A q \in Servers \ {p} : ~Running(q)

\* One process: invocations arrive at any time, their handlers run one at a
\* time.
NextSerial ==
    \/ \E p \in Servers :
         \/ InvokePlain(p)
         \/ Turn(p) /\ GetETag(p)
         \/ Turn(p) /\ GuardedWrite(p)
         \/ Turn(p) /\ ReadTask(p)
         \/ Turn(p) /\ GetGroupIdFromPlan(p)
         \/ Turn(p) /\ ListThreads(p)
         \/ Turn(p) /\ PostReply(p)
         \/ Turn(p) /\ CreateThread(p)
    \/ ExternalWrite

SpecSerial == Init /\ [][NextSerial]_vars

\* The tools that need the group of a plan.
GroupTools == {"add-task-comment", "get-task-comments", "list-group-members"}

\* One more call, of a tool that needs the group or of update-task.
InvokeAgain(p) ==
    /\ ncalls < MaxReads
    /\ \E tool \in GroupTools \cup {"update-task"} :
       \E a \in PlainInputs(tool) : Accept(p, tool, a)

\* One server taking calls one after the other.
NextAgain ==
    \/ InvokeAgain(1)
    \/ ReadTask(1)
    \/ GetGroupIdFromPlan(1)
    \/ ListThreads(1)
    \/ PostReply(1)
    \/ CreateThread(1)
    \/ GetETag(1)
    \/ GuardedWrite(1)
    \/ ReadThreads(1)
    \/ ReadPosts(1)
    \/ ReadMembers(1)

SpecAgain == InitComments /\ [][NextAgain]_vars

\* URLs whose keys would meet if the encoding lost something: a character and
\* its own code, the percent sign and its code, and the URLs above.
KeyUrls ==
    RefUrls \cup {<<":">>, <<"%", "3", "A">>, <<"%">>, <<"%", "2", "5">>,
                  <<"%", "2", "5", "3", "A">>, <<"/">>, <<"%", "2", "F">>, <<"a">>}

\* Server 1 is asked to add a reference.
InvokeAddReference ==
    /\ call[1].pc = "idle"
    /\ \E u \in KeyUrls :
         Accept(1, "add-reference", [taskId |-> <<"T1">>, url |-> u, alias |-> None, type |-> None])

\* After that call ended, server 2 is asked to delete a reference.
InvokeDeleteReference ==
    /\ call[1].pc = "done"
    /\ call[2].pc = "idle"
    /\ \E u \in KeyUrls : Accept(2, "delete-reference", [taskId |-> <<"T1">>, url |-> u])

\* add-reference, then delete-reference, on the same task.
NextRefs ==
    \/ InvokeAddReference
    \/ InvokeDeleteReference
    \/ \E p \in Servers : GetETag(p) \/ GuardedWrite(p)

SpecRefs == Init /\ [][NextRefs]_vars

\* ------------------------------------------- the servers with fewer tools

\* The tools the checklist-level server registers.
ChecklistLevelTools ==
    {"list-tasks", "get-task", "get-task-details", "create-task", "update-task",
     "update-task-details", "add-checklist-item", "add-checklist-items",
     "update-checklist-item", "delete-checklist-item", "delete-task", "list-buckets",
     "list-plans"}

\* The tools the lite server registers.
LiteTools ==
    {"list-tasks", "get-task", "get-task-details", "create-task", "update-task",
     "update-task-details", "delete-task", "list-buckets"}

Variants == {"checklist-level", "lite"}

VariantTools(v) == IF v = "lite" THEN LiteTools ELSE ChecklistLevelTools

\* A getETag that takes no heed of isDetails.
getETagUrlOfTask(taskId, isDetails) == TaskUrl(taskId)

\* getETag(taskId, isDetails = false) of these servers: the URL it fetches.
getETagUrl(taskId, isDetails) ==
    IF isDetails THEN TaskDetailsUrl(taskId) ELSE TaskUrl(taskId)

\* The isDetails each handler of these servers passes to getETag: update-task
\* and delete-task pass none, the handlers of the details pass true.
isDetails(tool) ==
    CASE tool \in {"update-task", "delete-task"} -> FALSE
      [] tool \in {"update-task-details", "add-checklist-item", "add-checklist-items",
                   "update-checklist-item", "delete-checklist-item"} -> TRUE

\* getETag of the server v, the rest of it as in the full server: GET the
\* URL, parse what the command printed and read "@odata.etag".
GetETagOfVariant(p, v) ==
    /\ call[p].pc = "getETag"
    /\ call[p].tool \in VariantTools(v)
    /\ \E down \in BOOLEAN, terse \in BOOLEAN :
       \E x \in {ExecSync(store, azRestCommand("GET", getETagUrl(call[p].args.taskId,
                                                                 isDetails(call[p].tool)),
                                               None), down, terse, FALSE)} :
       \E result \in {IF x.threw THEN None ELSE JsonParse(x.out)} :
         call' = [call EXCEPT
                    ![p].log = Logged(@, x),
                    ![p].pc = IF result = None THEN "done" ELSE "write",
                    ![p].result = IF x.threw THEN AzRestFailed
                                  ELSE IF result = None THEN Err(<<"SyntaxError">>)
                                  ELSE None,
                    ![p].etag = StampOf(result)]
    /\ UNCHANGED <<store, uuidCtr, ncalls, nExt>>

\* One call of a guarded tool that the checklist-level server has too.
InvokeShared(p) ==
    /\ ncalls < SoloCalls
    /\ \E tool \in GuardedTools \cap ChecklistLevelTools :
       \E a \in ToolInputs(tool) : Accept(p, tool, a)

\* One call of a tool that several servers have, its ETag fetched by the
\* getETag of any of the servers that have the tool; the handlers around
\* getETag are the same text in the three.
NextVariants ==
    \/ InvokeShared(1)
    \/ GetETag(1)
    \/ \E v \in Variants : GetETagOfVariant(1, v)
    \/ GuardedWrite(1)
    \/ ExternalWrite

SpecVariants == Init /\ [][NextVariants]_vars

\* ------------------------------------------------------- calls that end

\* The tools of the server that the runs take.
AllTools == ReadOnlyTools \cup {"create-task"} \cup MutationTools

\* One call of any tool.
InvokeAny(p) ==
    /\ ncalls < SoloCalls
    /\ \E tool \in AllTools : \E a \in PlainInputs(tool) : Accept(p, tool, a)

\* A server whose guarded handlers fetch the ETag again when the write fails.
HandlerStepRetrying(p) ==
    \/ ReadOnly(p)
    \/ ReadMembers(p)
    \/ CreateTask(p)
    \/ GetETag(p)
    \/ GuardedWriteRetrying(p)
    \/ ReadTask(p)
    \/ GetGroupIdFromPlan(p)
    \/ ListThreads(p)
    \/ PostReply(p)
    \/ CreateThread(p)
    \/ ReadThreads(p)
    \/ ReadPosts(p)

\* Server p goes on with the call it has: the next round trip of the handler
\* returns, with a response or with an error, and the handler runs to its next
\* round trip or to its end.
HandlerStep(p) ==
    \/ ReadOnly(p)
    \/ ReadMembers(p)
    \/ CreateTask(p)
    \/ GetETag(p)
    \/ GuardedWrite(p)
    \/ ReadTask(p)
    \/ GetGroupIdFromPlan(p)
    \/ ListThreads(p)
    \/ PostReply(p)
    \/ CreateThread(p)
    \/ ReadThreads(p)
    \/ ReadPosts(p)

\* One server, one call of any tool, other writers at work.
NextLive ==
    \/ InvokeAny(1)
    \/ HandlerStep(1)
    \/ ExternalWrite

\* execSync returns or throws: a handler that stands at a round trip goes on.
\* This is WF_vars(HandlerStep(1)) written out, a step of the handler being
\* possible exactly while the call is between its acceptance and its end.
HandlerGoesOn ==
    \/ []<>(call[1].pc \in {"idle", "done"})
    \/ []<><<HandlerStep(1)>>_vars

SpecLive == InitComments /\ [][NextLive]_vars /\ HandlerGoesOn

\* ------------------------------------------- comments added and read back

\* The calls of add-task-comment a run makes before it reads the comments.
MaxAdds == 2

\* Comments: the free texts, and a comment of two backslashes.
Comments == Texts \cup {<<"\\", "\\">>}

\* One more add-task-comment, taken by server 1 when its last call has ended.
InvokeAddComment ==
    /\ ncalls < MaxAdds
    /\ call[2].pc = "idle"
    /\ \E a \in [taskId : TaskIds, comment : Comments] : Accept(1, "add-task-comment", a)

\* get-task-comments, taken by server 2 after the calls of server 1.
InvokeGetComments ==
    /\ call[1].pc = "done"
    /\ call[2].pc = "idle"
    /\ \E a \in ToolInputs("get-task-comments") : Accept(2, "get-task-comments", a)

\* Calls of add-task-comment one after the other, then one get-task-comments;
\* no other writer.
NextRoundTrip ==
    \/ InvokeAddComment
    \/ ReadTask(1)
    \/ GetGroupIdFromPlan(1)
    \/ ListThreads(1)
    \/ PostReply(1)
    \/ CreateThread(1)
    \/ GetETag(1)
    \/ GuardedWrite(1)
    \/ InvokeGetComments
    \/ ReadTask(2)
    \/ GetGroupIdFromPlan(2)
    \/ ReadThreads(2)
    \/ ReadPosts(2)

SpecRoundTrip == InitComments /\ [][NextRoundTrip]_vars

\* ------------------------------------------------------------- properties

IsWrite(e) == e.method \in {"PATCH", "DELETE"}

Accepted(e) == e.status >= 200 /\ e.status < 300

WritesOf(log) == {i \in 1..Len(log) : IsWrite(log[i])}

GetsOf(log, url) == {i \in 1..Len(log) : log[i].method = "GET" /\ log[i].url = url}

Started(p) == call[p].pc # "idle"

Succeeded(c) == c.pc = "done" /\ IsSome(c.result) /\ Val(c.result).ok

Failed(c) == c.pc = "done" /\ IsSome(c.result) /\ ~Val(c.result).ok

\* The kind of resource each tool writes, and the resource a call writes.
TaskTools == {"update-task", "move-task", "delete-task", "add-task-comment"}

BucketTools == {"update-bucket", "delete-bucket"}

KindOfTool(tool) ==
    IF tool \in TaskTools THEN "task"
    ELSE IF tool \in BucketTools THEN "bucket"
    ELSE "taskDetails"

TargetOf(c) ==
    <<KindOfTool(c.tool), IF c.tool \in BucketTools THEN c.args.bucketId ELSE c.args.taskId>>

EndpointOf(r) ==
    IF r[1] = "task" THEN TaskUrl(r[2])
    ELSE IF r[1] = "bucket" THEN BucketUrl(r[2])
    ELSE TaskDetailsUrl(r[2])

\* The requests of a call that fetch the token for its write: the GETs of the
\* written resource, for add-task-comment those after the thread was posted.
TokenGets(c) ==
    {i \in GetsOf(c.log, EndpointOf(TargetOf(c))) :
        c.tool = "add-task-comment" => \E j \in 1..(i - 1) : c.log[j].method = "POST"}

\* The version stamps a resource can come to carry.
StampsOf(r) == {EtagOf(r, v) : v \in 1..(MaxCalls + MaxExt + 1)}

\* The stamp the resource carries now.
Current(r) == IF Exists(store, r) THEN Some(EtagOf(r, Val(store[r]).ver)) ELSE None

\* C1: every PATCH or DELETE a call sends carries, as its If-Match header, the
\* version stamp that the latest earlier GET of the same URL in the same call
\* returned; this includes the PATCH that attaches the conversation in
\* add-task-comment.
IfMatchIsOwnLatestFetch ==
    \A p \in Servers : \A i \in WritesOf(call[p].log) :
        LET log == call[p].log
            gets == {j \in GetsOf(log, log[i].url) : j < i}
        IN /\ gets # {}
           /\ \E j \in gets :
                /\ \A k \in gets : k <= j
                /\ IsSome(log[j].etag)
                /\ log[i].ifMatch = log[j].etag

\* A call's write was accepted on the token of the version that an earlier
\* call's write left behind.
SecondCallFetchedAnew ==
    /\ nExt = 0
    /\ \E p \in Servers : \E i \in WritesOf(call[p].log) :
         /\ Accepted(call[p].log[i])
         /\ call[p].log[i].ifMatch = Some(EtagOf(<<"task", <<"T1">>>>, 2))
         /\ call[p].log[i].url = TaskUrl(<<"T1">>)

\* C2: a call's write goes to the endpoint of the resource its tool changes
\* (task, task details or bucket), its token is a stamp of that resource, and
\* the GET that returned the token went to the same endpoint.
TokenFromWrittenEndpoint ==
    \A p \in Servers : \A i \in WritesOf(call[p].log) :
        LET log == call[p].log
            r == TargetOf(call[p])
        IN /\ log[i].url = EndpointOf(r)
           /\ IsSome(log[i].ifMatch)
           /\ Val(log[i].ifMatch) \in StampsOf(r)
           /\ \E j \in 1..(i - 1) :
                log[j].method = "GET" /\ log[j].etag = log[i].ifMatch
           /\ \A j \in 1..(i - 1) :
                (log[j].method = "GET" /\ log[j].etag = log[i].ifMatch)
                    => log[j].url = log[i].url

\* A details write and a task write of the same task were both accepted, each
\* on its own resource's token.
DetailsAndTaskWritten ==
    \E p, q \in Servers :
        /\ KindOfTool(call[p].tool) = "taskDetails" /\ Succeeded(call[p])
        /\ call[q].tool \in TaskTools /\ Succeeded(call[q])
        /\ \E i \in WritesOf(call[p].log) :
             /\ Accepted(call[p].log[i])
             /\ Val(call[p].log[i].ifMatch) \in StampsOf(<<"taskDetails", <<"T1">>>>)
        /\ \E i \in WritesOf(call[q].log) :
             /\ Accepted(call[q].log[i])
             /\ Val(call[q].log[i].ifMatch) \in StampsOf(<<"task", <<"T1">>>>)

\* Server p sends its write holding a token the resource no longer carries.
StaleWrite(p) ==
    /\ call[p].pc = "write"
    /\ IsSome(call[p].etag)
    /\ call[p].etag # Current(TargetOf(call[p]))
    /\ call'[p].pc = "done"

\* Of two writes sent with the same token to the same resource, one at most
\* was accepted.
AtMostOneWins ==
    \A p, q \in Servers :
        p # q =>
          \A i \in WritesOf(call[p].log) : \A j \in WritesOf(call[q].log) :
            (/\ call[p].log[i].url = call[q].log[j].url
             /\ call[p].log[i].ifMatch = call[q].log[j].ifMatch)
                => ~(Accepted(call[p].log[i]) /\ Accepted(call[q].log[j]))

\* C3 as stated: a write whose token has gone stale ends its call in an error
\* and leaves the resource as the other writer left it, and of two writes on
\* one token at most one succeeds.
StaleWriteEndsInError ==
    /\ [][\A p \in Servers :
            StaleWrite(p) => /\ Failed(call'[p])
                             /\ store' = store]_vars
    /\ []AtMostOneWins

AttachWarning(c) ==
    Ok(Stringify(JObj(<< <<<<"success">>, JBool(TRUE)>>,
                         <<<<"warning">>,
                           JStr(<<"Thread created but task link may have failed">>)>>,
                         <<<<"conversationId">>, Val(c.local.conversationId)>> >>)))

\* C3: a write whose token has gone stale leaves the resource as the other
\* writer left it; the call ends in an error, except add-task-comment, which
\* ends in its success answer carrying the warning; and of two writes on one
\* token at most one succeeds.
StaleWriteIsNotApplied ==
    /\ [][\A p \in Servers :
            StaleWrite(p) =>
                /\ store' = store
                /\ call[p].tool \in GuardedTools => Failed(call'[p])
                /\ call[p].tool = "add-task-comment"
                      => call'[p].result = AttachWarning(call[p])]_vars
    /\ []AtMostOneWins

\* Two servers sent their writes on the same token: one was accepted, the other
\* refused as stale.
RaceLost ==
    \E p, q \in Servers :
        /\ p # q
        /\ Succeeded(call[p]) /\ Failed(call[q])
        /\ \E i \in WritesOf(call[p].log) : \E j \in WritesOf(call[q].log) :
             /\ call[p].log[i].url = call[q].log[j].url
             /\ call[p].log[i].ifMatch = call[q].log[j].ifMatch
             /\ Accepted(call[p].log[i])
             /\ call[q].log[j].status = 412

\* C4: a call sends at most one PATCH or DELETE and fetches its token at most
\* once; nothing follows a request that failed; a call of a guarded tool that
\* passed validation and has ended fetched its token exactly once.
OneFetchOneWrite ==
    \A p \in Servers :
        Started(p) =>
            LET c == call[p] IN
            /\ Cardinality(WritesOf(c.log)) <= 1
            /\ Cardinality(TokenGets(c)) <= 1
            /\ \A i \in WritesOf(c.log) :
                 /\ i = Len(c.log)
                 /\ \E j \in TokenGets(c) : j < i
            /\ \A i \in 1..Len(c.log) : ~Accepted(c.log[i]) => i = Len(c.log)
            /\ (c.tool \in GuardedTools /\ c.pc = "done"
                  /\ c.result # Err(<<"Invalid parameters">>))
                    => Cardinality(TokenGets(c)) = 1
            /\ c.tool \in GuardedTools => Len(c.log) <= 2

\* A call ended in an error after its write was refused, having sent the
\* token GET and the write and nothing more.
RefusedAndNotRetried ==
    \E p \in Servers :
        /\ Failed(call[p])
        /\ call[p].tool \in GuardedTools
        /\ Len(call[p].log) = 2
        /\ call[p].log[1].method = "GET"
        /\ IsWrite(call[p].log[2])
        /\ call[p].log[2].status = 412

\* C5: when the token GET fails or its answer carries no version stamp, the
\* call sends no PATCH or DELETE, sends nothing after that GET, and ends in an
\* error.
FailedFetchEndsCall ==
    \A p \in Servers :
        Started(p) =>
            LET c == call[p] IN
            \A i \in TokenGets(c) :
                (~Accepted(c.log[i]) \/ c.log[i].etag = None) =>
                    /\ WritesOf(c.log) = {}
                    /\ i = Len(c.log)
                    /\ c.pc \in {"write", "done"}
                    /\ c.pc = "done" => Failed(c)

\* add-task-comment posted its thread, got an answer without a version stamp
\* to its token GET, and ended in an error with the task unwritten.
FetchWithoutStampFailed ==
    \E p \in Servers :
        LET c == call[p] IN
        /\ c.tool = "add-task-comment"
        /\ Failed(c)
        /\ TokenGets(c) # {}
        /\ \A i \in TokenGets(c) : Accepted(c.log[i]) /\ c.log[i].etag = None
        /\ WritesOf(c.log) = {}

SuppliedKeys(a) ==
    {k \in {<<"title">>, <<"percentComplete">>, <<"assignments">>, <<"appliedCategories">>} :
        \/ k = <<"title">> /\ IsSome(a.title)
        \/ k = <<"percentComplete">> /\ IsSome(a.percentComplete)
        \/ k = <<"assignments">> /\ IsSome(a.assignUserId)
        \/ k = <<"appliedCategories">> /\ IsSome(a.category)}

\* C7: the delta update-task sends has a key for each parameter that was
\* given, an empty string included, has no other key, and maps none to null.
DeltaKeysAreGivenParams ==
    \A p \in Servers :
        (Started(p) /\ call[p].tool = "update-task") =>
            \A i \in WritesOf(call[p].log) :
                LET d == call[p].log[i].json IN
                /\ IsSome(d)
                /\ KeysOf(Val(d)) = SuppliedKeys(call[p].given)
                /\ \A k \in KeysOf(Val(d)) : Get(Val(d), k) # JNull

\* update-task given an empty category sent a delta without appliedCategories.
EmptyCategoryDropped ==
    \E p \in Servers :
        LET c == call[p] IN
        /\ c.tool = "update-task"
        /\ c.given.category = Some(<<>>)
        /\ \E i \in WritesOf(c.log) :
             /\ Accepted(c.log[i])
             /\ ~HasKey(Val(c.log[i].json), <<"appliedCategories">>)

\* The fields of a task and of its details that are maps from a key to an entry.
MapFields == {<<"assignments">>, <<"appliedCategories">>, <<"checklist">>, <<"references">>}

KeyedMapTools ==
    {"update-task", "add-checklist-item", "add-checklist-items", "update-checklist-item",
     "delete-checklist-item", "add-reference", "delete-reference"}

\* The keys of map field m that the parameters of call c name.
NamedKeys(c, m) ==
    IF c.tool = "update-task" /\ m = <<"assignments">> /\ IsSome(c.given.assignUserId)
    THEN {Val(c.given.assignUserId)}
    ELSE IF c.tool = "update-task" /\ m = <<"appliedCategories">> /\ IsSome(c.given.category)
    THEN {Val(c.given.category)}
    ELSE IF c.tool \in {"update-checklist-item", "delete-checklist-item"} /\ m = <<"checklist">>
    THEN {c.given.itemId}
    ELSE IF c.tool \in {"add-reference", "delete-reference"} /\ m = <<"references">>
    THEN {EncodeURIComponent(c.given.url)}
    ELSE {}

\* The keys of map field m that call c may generate.
GeneratesKeys(c, m) ==
    c.tool \in {"add-checklist-item", "add-checklist-items"} /\ m = <<"checklist">>

MapOf(doc, m) == IF HasKey(doc, m) THEN Get(doc, m) ELSE EmptyObj

IsNewItem(v, title, isChecked) ==
    /\ v[1] = "obj"
    /\ {<<"title">>, <<"isChecked">>} \subseteq KeysOf(v)
    /\ Get(v, <<"title">>) = JStr(title)
    /\ Get(v, <<"isChecked">>) = JBool(isChecked)

SecondUpdateBucket(p, q) ==
    /\ p # q
    /\ call[q].tool = "update-bucket" /\ Succeeded(call[q])
    /\ call[p].tool = "update-bucket" /\ call[p].given = call[q].given
    /\ call[p].pc = "write"
    /\ LET r == TargetOf(call[q]) IN
       /\ Exists(store, r)
       /\ \E i \in WritesOf(call[q].log) :
            /\ Accepted(call[q].log[i])
            /\ call[q].log[i].ifMatch = Some(EtagOf(r, Val(store[r]).ver - 1))
       /\ \E j \in TokenGets(call[p]) : call[p].log[j].etag = Current(r)
    /\ call'[p].pc = "done"
    /\ Len(call'[p].log) = Len(call[p].log) + 1
    /\ call'[p].log[Len(call'[p].log)].status # 0

\* C11: an update-bucket that follows a successful update-bucket with the same
\* bucket and name, no other write in between, succeeds on a token other than
\* the first call's and leaves the bucket's fields as the first call left them.
UpdateBucketTwice ==
    [][\A p, q \in Servers :
         SecondUpdateBucket(p, q) =>
            LET r == TargetOf(call[q])
                w == call'[p].log[Len(call'[p].log)]
            IN /\ Succeeded(call'[p])
               /\ Accepted(w)
               /\ \A i \in WritesOf(call[q].log) : w.ifMatch # call[q].log[i].ifMatch
               /\ Exists(store', r)
               /\ Val(store'[r]).doc = Val(store[r]).doc
               /\ Get(Val(store'[r]).doc, <<"name">>) = JStr(call[p].given.name)]_vars

\* Two update-bucket calls with the same name succeeded one after the other,
\* the second on the token of the version the first one made.
BucketUpdatedTwice ==
    /\ nExt = 0
    /\ \E p, q \in Servers :
         /\ p # q
         /\ call[p].tool = "update-bucket" /\ Succeeded(call[p])
         /\ call[q].tool = "update-bucket" /\ Succeeded(call[q])
         /\ call[p].given = call[q].given
         /\ \E i \in WritesOf(call[q].log) :
              call[q].log[i].ifMatch = Some(EtagOf(<<"bucket", <<"B1">>>>, 1))
         /\ \E i \in WritesOf(call[p].log) :
              call[p].log[i].ifMatch = Some(EtagOf(<<"bucket", <<"B1">>>>, 2))
         /\ Val(store[<<"bucket", <<"B1">>>>]).ver = 3
         /\ Get(Val(store[<<"bucket", <<"B1">>>>]).doc, <<"name">>) = JStr(<<"a">>)

\* C12: create-task sends exactly one request, a POST to the task collection
\* without If-Match whose body is exactly {planId, bucketId, title} as given,
\* and returns the text of the answer.
CreateTaskPostsOnce ==
    \A p \in Servers :
        (Started(p) /\ call[p].tool = "create-task") =>
            LET c == call[p] IN
            /\ Len(c.log) <= 1
            /\ c.pc = "done" => Len(c.log) = 1
            /\ \A i \in 1..Len(c.log) :
                 /\ c.log[i].method = "POST"
                 /\ c.log[i].url = TasksUrl
                 /\ c.log[i].ifMatch = None
                 /\ c.log[i].json = Some(JObj(<< <<<<"planId">>, JStr(c.given.planId)>>,
                                                 <<<<"bucketId">>, JStr(c.given.bucketId)>>,
                                                 <<<<"title">>, JStr(c.given.title)>> >>))
                 /\ Accepted(c.log[i]) =>
                      /\ Exists(store, <<"task", NewTaskIds[1]>>)
                      /\ c.result = Ok(Stringify(Shown(<<"task", NewTaskIds[1]>>,
                                                       Val(store[<<"task", NewTaskIds[1]>>]))))

\* create-task with a title that holds a double quote ended in an error
\* without having sent a request.
QuotedTitleNotPosted ==
    \E p \in Servers :
        /\ call[p].tool = "create-task"
        /\ call[p].given.title = <<"\"">>
        /\ Failed(call[p])
        /\ call[p].log = <<>>

\* create-task with a plain title posted the task and returned the answer.
PlainTitlePosted ==
    \E p \in Servers :
        /\ call[p].tool = "create-task"
        /\ call[p].given.title = <<"a">>
        /\ Succeeded(call[p])
        /\ Len(call[p].log) = 1
        /\ Exists(store, <<"task", NewTaskIds[1]>>)
        /\ Get(Val(store[<<"task", NewTaskIds[1]>>]).doc, <<"title">>) = JStr(<<"a">>)

\* The call read a task that names no conversation.
ReadWithoutConversation(c) ==
    /\ c.tool = "add-task-comment"
    /\ IsSome(c.local.task)
    /\ ~Truthy(Val(c.local.task), <<"conversationThreadId">>)

\* The thread add-task-comment posts for a task read as task.
ThreadFor(c, task) ==
    JObj(<< <<<<"topic">>, Get(task, <<"title">>)>>,
            <<<<"posts">>,
              JArr(<< JObj(<< <<<<"body">>,
                                JObj(<< <<<<"contentType">>, JStr(<<"text">>)>>,
                                        <<<<"content">>, JStr(c.given.comment)>> >>)>> >>) >>)>> >>)

\* The i-th request of add-task-comment for a task without conversation.
NewConversationStep(c, i) ==
    LET e == c.log[i]
        task == Val(c.local.task)
    IN CASE i = 1 -> e.method = "GET" /\ e.url = TaskUrl(c.given.taskId)
         [] i = 2 -> e.method = "GET" /\ e.url = PlanUrl(Get(task, <<"planId">>)[2])
         [] i = 3 -> /\ e.method = "POST"
                     /\ e.url = NewThreadUrl(<<"G1">>)
                     /\ e.json = Some(ThreadFor(c, task))
         [] i = 4 -> e.method = "GET" /\ e.url = TaskUrl(c.given.taskId)
         [] i = 5 -> /\ e.method = "PATCH"
                     /\ e.url = TaskUrl(c.given.taskId)
                     /\ IsSome(c.log[4].etag)
                     /\ e.ifMatch = c.log[4].etag
                     /\ \E k \in 1..Len(ConversationIds) :
                          /\ Exists(store, <<"conversation", ConversationIds[k]>>)
                          /\ e.json \in
                               {Some(JObj(<< <<<<"conversationThreadId">>, JStr(id)>> >>)) :
                                   id \in {ConversationIds[k], ThreadIds[k]}}
         [] OTHER -> FALSE

\* C13: add-task-comment for a task without conversation reference sends, in
\* this order, GET task, GET plan, POST of one thread (topic: the title read,
\* one post with the comment as text), GET task for the token, PATCH task
\* under that token setting the reference to the id the POST returned; it
\* sends nothing else, and it stops short only after a request that failed or
\* a token GET without stamp.
NewConversationInOrder ==
    \A p \in Servers :
        (Started(p) /\ ReadWithoutConversation(call[p])) =>
            LET c == call[p] IN
            /\ \A i \in 1..Len(c.log) : NewConversationStep(c, i)
            /\ (/\ c.pc = "done"
                /\ \A i \in 1..Len(c.log) : Accepted(c.log[i])
                /\ Len(c.log) >= 4 => IsSome(c.log[4].etag))
                   => Len(c.log) = 5

\* add-task-comment with a comment that holds a double quote read the task and
\* the plan and ended in an error without posting a thread.
QuotedCommentNotPosted ==
    \E p \in Servers :
        LET c == call[p] IN
        /\ ReadWithoutConversation(c)
        /\ c.given.comment = <<"\"">>
        /\ Failed(c)
        /\ Len(c.log) = 2
        /\ \A i \in 1..2 : Accepted(c.log[i])

\* The call read a task whose conversation reference names a conversation
\* that has no thread.
ReadEmptyConversation(c) ==
    /\ IsSome(c.local.task)
    /\ Truthy(Val(c.local.task), <<"conversationThreadId">>)
    /\ LET k == <<"conversation", Get(Val(c.local.task), <<"conversationThreadId">>)[2]>>
       IN /\ Exists(store, k)
          /\ Get(Val(store[k]).doc, <<"threads">>)[2] = <<>>

\* C14: get-task-comments for a task whose conversation has no thread, having
\* listed the threads, ends in an error.
GetCommentsOfEmptyFails ==
    \A p \in Servers :
        LET c == call[p] IN
        (/\ c.tool = "get-task-comments"
         /\ c.pc = "done"
         /\ ReadEmptyConversation(c)
         /\ Len(c.log) = 3
         /\ c.log[3].url = ThreadsUrl(<<"G1">>, ConversationIds[1])
         /\ Accepted(c.log[3]))
            => Failed(c)

\* get-task-comments for a task whose conversation has no thread returned the
\* empty list.
GetCommentsOfEmptySucceeded ==
    \E p \in Servers :
        LET c == call[p] IN
        /\ c.tool = "get-task-comments"
        /\ ReadEmptyConversation(c)
        /\ Len(c.log) = 3
        /\ Accepted(c.log[3])
        /\ c.result = Ok(<<"[", "]">>)

\* C15: add-task-comment for a task whose conversation lists no thread (an
\* empty list or none) ends in the error "Conversation exists but has no
\* threads" having sent three GETs (task, plan, threads) and nothing else: no
\* POST, no token GET, no PATCH.
EmptyConversationNoWrite ==
    \A p \in Servers :
        LET c == call[p] IN
        (/\ c.tool = "add-task-comment"
         /\ ReadEmptyConversation(c)
         /\ Len(c.log) >= 3
         /\ Accepted(c.log[3]))
            => /\ c.pc = "done"
               /\ c.result = Err(<<"Conversation exists but has no threads">>)
               /\ Len(c.log) = 3
               /\ \A i \in 1..3 : c.log[i].method = "GET"
               /\ c.log[3].url = ThreadsUrl(<<"G1">>, ConversationIds[1])
               /\ TokenGets(c) = {}
               /\ \A k \in Conversations \cup Resources :
                    Exists(store, k) => Val(store[k]).ver <= 1 + nExt

\* add-task-comment found the task's conversation without threads and ended
\* in the error.
EmptyConversationRefused ==
    \E p \in Servers :
        LET c == call[p] IN
        /\ c.tool = "add-task-comment"
        /\ ReadEmptyConversation(c)
        /\ Len(c.log) = 3
        /\ Accepted(c.log[3])
        /\ c.result = Err(<<"Conversation exists but has no threads">>)

\* The call's thread POST was accepted.
ThreadCreated(c) ==
    /\ c.tool = "add-task-comment"
    /\ \E i \in 1..Len(c.log) :
         c.log[i].method = "POST" /\ c.log[i].url = NewThreadUrl(<<"G1">>)
            /\ Accepted(c.log[i])

\* The attach step of the call failed: its token GET failed or gave no stamp,
\* or its PATCH was not accepted.
AttachFailed(c) ==
    \/ \E i \in TokenGets(c) : ~Accepted(c.log[i]) \/ c.log[i].etag = None
    \/ \E i \in WritesOf(c.log) : ~Accepted(c.log[i])

\* C16: an add-task-comment call that has created its thread never ends in an
\* error; when its attach step fails, in the token GET or in the PATCH, it ends
\* in the success answer with the warning and the conversation id.
AfterThreadNeverError ==
    \A p \in Servers :
        LET c == call[p] IN
        (ThreadCreated(c) /\ c.pc = "done") =>
            /\ Succeeded(c)
            /\ AttachFailed(c) => c.result = AttachWarning(c)

\* add-task-comment created its thread, failed to fetch the task's token and
\* ended in an error.
ThreadCreatedThenError ==
    \E p \in Servers :
        LET c == call[p] IN
        /\ ThreadCreated(c)
        /\ Failed(c)
        /\ WritesOf(c.log) = {}
        /\ \E i \in TokenGets(c) : ~Accepted(c.log[i])
        /\ Exists(store, <<"conversation", ConversationIds[1]>>)

\* Server p's add-task-comment has its PATCH of the task accepted.
AttachAccepted(p) ==
    /\ call[p].tool = "add-task-comment"
    /\ call[p].pc = "write"
    /\ call'[p].pc = "done"
    /\ store'[TargetOf(call[p])] # store[TargetOf(call[p])]

\* C17: add-task-comment writes a conversation reference only to a task that
\* has none when the write is applied; it never puts another conversation's id
\* in the place of a reference that is set.
ReferenceSetOnce ==
    [][\A p \in Servers :
         AttachAccepted(p) =>
            LET old == Val(store[TargetOf(call[p])]).doc
                new == Val(store'[TargetOf(call[p])]).doc
            IN /\ ~Truthy(old, <<"conversationThreadId">>)
               /\ Truthy(old, <<"conversationThreadId">>)
                    => Get(new, <<"conversationThreadId">>)
                         = Get(old, <<"conversationThreadId">>)]_vars

\* Two add-task-comment calls each created a conversation and each had its
\* attach accepted: the task names the second, the first is left unreferenced.
ReferenceReplaced ==
    \E p, q \in Servers :
        /\ p # q
        /\ ThreadCreated(call[p]) /\ ThreadCreated(call[q])
        /\ \E i \in WritesOf(call[p].log) : Accepted(call[p].log[i])
        /\ \E i \in WritesOf(call[q].log) :
             /\ Accepted(call[q].log[i])
             /\ call[q].log[i].json
                  = Some(JObj(<< <<<<"conversationThreadId">>, JStr(ConversationIds[1])>> >>))
        /\ Get(Val(store[<<"task", <<"T1">>>>]).doc, <<"conversationThreadId">>)
             = JStr(ConversationIds[2])

\* The 25 category slots of a plan.
CategorySlots == {<<"category" \o ToString(i)>> : i \in 1..25}

\* C20: an update-task call whose category is not one of category1..category25
\* is refused as invalid before any request is sent, and the appliedCategories
\* of a delta has keys among category1..category25 only.
CategoryOnlyInSlots ==
    \A p \in Servers :
        call[p].tool = "update-task" =>
            /\ (IsSome(call[p].given.category) /\ Val(call[p].given.category) \notin CategorySlots)
                 => /\ call[p].log = <<>>
                    /\ call[p].result = Err(<<"Invalid parameters">>)
            /\ \A i \in WritesOf(call[p].log) :
                 LET body == Val(call[p].log[i].json)
                 IN HasKey(body, <<"appliedCategories">>)
                      => KeysOf(Get(body, <<"appliedCategories">>)) \subseteq CategorySlots

\* update-task given category26 passed validation and its PATCH, with the key
\* category26 in appliedCategories, was accepted.
Category26Written ==
    \E p \in Servers :
        /\ call[p].tool = "update-task"
        /\ call[p].given.category = Some(<<"category26">>)
        /\ Succeeded(call[p])
        /\ \E i \in WritesOf(call[p].log) :
             /\ Accepted(call[p].log[i])
             /\ Get(Val(call[p].log[i].json), <<"appliedCategories">>)
                  = JObj(<< <<<<"category26">>, JBool(TRUE)>> >>)

\* Server p's guarded tool runs its PATCH or DELETE command and the service
\* applies it.
WriteApplied(p) ==
    /\ call[p].tool \in GuardedTools
    /\ call[p].pc = "write"
    /\ call'[p].pc = "done"
    /\ Len(call'[p].log) = Len(call[p].log) + 1
    /\ Accepted(call'[p].log[Len(call'[p].log)])

\* C18: when the write of a guarded tool, PATCH or DELETE, is applied, the call
\* succeeds; its result is what the command printed if it printed anything,
\* and a success message otherwise.
AppliedWriteResult ==
    [][\A p \in Servers :
         WriteApplied(p) =>
            \E verbose \in BOOLEAN :
            \E h \in {HandlerOf(call[p], uuidCtr)} :
            \E x \in {ExecSync(store, GuardedCommand(h.method, h.url, Val(call[p].etag), h.body),
                               FALSE, FALSE, verbose)} :
               /\ call'[p].log = Logged(call[p].log, x)
               /\ store' = x.store
               /\ IsSome(call'[p].result) /\ Val(call'[p].result).ok
               /\ x.out # <<>> => Val(call'[p].result).text = x.out
               /\ x.out = <<>> => Val(call'[p].result).text = h.okText]_vars

\* delete-task had its DELETE answered 200, with the deleted task in the body,
\* and returned its own message.
DeleteAnswerDropped ==
    \E p \in Servers :
        /\ call[p].tool = "delete-task"
        /\ Succeeded(call[p])
        /\ \E i \in WritesOf(call[p].log) :
             /\ call[p].log[i].status = 200
             /\ IsSome(call[p].log[i].etag)
        /\ Val(call[p].result).text = <<"Task deleted successfully">>

\* The errors that name the operation that failed and carry the message of the
\* failed command: azRest's, and the one of the handler's own PATCH or DELETE.
PrefixedErrors(c) ==
    {AzRestFailed} \cup (IF c.tool \in GuardedTools THEN {HandlerOf(c, 0).onError} ELSE {})

\* C19: a call in which a request failed ends in an error, and every error of
\* execute is the failed operation's prefix followed by the underlying message;
\* a refused PATCH or DELETE of a guarded tool ends in that tool's prefixed
\* error.  The attach of add-task-comment is excepted.
FailuresSurfacePrefixed ==
    \A p \in Servers :
        LET c == call[p] IN
        c.pc = "done" =>
            /\ (Failed(c) /\ c.result # Err(<<"Invalid parameters">>))
                 => c.result \in PrefixedErrors(c)
            /\ (c.tool \in GuardedTools /\ \E i \in WritesOf(c.log) : ~Accepted(c.log[i]))
                 => c.result = HandlerOf(c, 0).onError
            /\ (\E i \in DOMAIN c.log :
                  ~Accepted(c.log[i]) /\ ~(c.tool = "add-task-comment" /\ i \in WritesOf(c.log)))
                 => Failed(c)

\* move-task fetched the task, got an answer without @odata.etag and ended in
\* the TypeError of etag.replace, a message with no prefix.
MoveTaskBareTypeError ==
    \E p \in Servers :
        LET c == call[p] IN
        /\ c.tool = "move-task"
        /\ c.result = Err(<<"TypeError">>)
        /\ Len(c.log) = 1
        /\ Accepted(c.log[1]) /\ c.log[1].etag = None

\* The characters that delimit scheme, host and path in a URL.
UrlDelimiters == {":", "/", "."}

\* The keys of the references map in the PATCHes sent by the call c.
ReferenceKeysSent(c) ==
    UNION {KeysOf(Get(Val(c.log[i].json), <<"references">>)) :
             i \in {j \in WritesOf(c.log) : HasKey(Val(c.log[j].json), <<"references">>)}}

\* C21: in the key add-reference and delete-reference build from a URL, every
\* ':', '/' and '.' of the URL stands unencoded at the position it has in the
\* URL.
DelimitersKeptInKey ==
    \A p \in Servers :
        call[p].tool \in {"add-reference", "delete-reference"} =>
            \A key \in ReferenceKeysSent(call[p]) :
            \A i \in DOMAIN call[p].args.url :
                call[p].args.url[i] \in UrlDelimiters
                  => i \in DOMAIN key /\ key[i] = call[p].args.url[i]

\* add-reference for h://a.b sent the key h%3A%2F%2Fa.b and the PATCH was
\* accepted.
SchemeSeparatorEncoded ==
    \E p \in Servers :
        /\ call[p].tool = "add-reference"
        /\ call[p].args.url = <<"h", ":", "/", "/", "a", ".", "b">>
        /\ Succeeded(call[p])
        /\ ReferenceKeysSent(call[p])
             = {<<"h", "%", "3", "A", "%", "2", "F", "%", "2", "F", "a", ".", "b">>}

\* C22: the read-only tools send GET requests only, and no step of a run of
\* read-only calls changes what the service holds.
ReadOnlyToolsOnlyGet ==
    [][/\ store' = store
       /\ \A p \in Servers :
            call'[p].tool \in ReadOnlyTools =>
               \A i \in DOMAIN call'[p].log : call'[p].log[i].method = "GET"]_vars

\* The second of two read-only calls, a get-task-comments, read the task, the
\* plan, the threads and the posts and returned the comments.
SecondReadDone ==
    /\ ncalls = 2
    /\ call[1].tool = "get-task-comments"
    /\ Succeeded(call[1])
    /\ Len(call[1].log) = 4
    /\ \A r \in DOMAIN store : IsSome(store[r]) => Val(store[r]).ver = 1

\* The threads of the conversation the task read by the call c names, in the
\* order the service lists them.
ThreadsListed(c) ==
    LET k == <<"conversation", Get(Val(c.local.task), <<"conversationThreadId">>)[2]>>
    IN IF Exists(store, k) THEN Get(Val(store[k]).doc, <<"threads">>)[2] ELSE <<>>

\* The call c, an add-task-comment, read a task that names a conversation with
\* a thread or more, and listed the threads.
RepliesToConversation(c) ==
    /\ c.tool = "add-task-comment"
    /\ IsSome(c.local.task)
    /\ Truthy(Val(c.local.task), <<"conversationThreadId">>)
    /\ ThreadsListed(c) # <<>>
    /\ IsSome(c.local.threadId)

\* C23: add-task-comment on a task whose conversation has threads sends one
\* POST, the reply to the thread listed first, and creates no thread or
\* conversation.
ReplyToFirstThread ==
    \A p \in Servers :
        LET c == call[p]
            posts == {i \in DOMAIN c.log : c.log[i].method = "POST"}
        IN RepliesToConversation(c) =>
            /\ \A i \in posts :
                 /\ c.log[i].url
                      = ReplyUrl(<<"G1">>,
                                 Get(Val(c.local.task), <<"conversationThreadId">>)[2],
                                 Get(ThreadsListed(c)[1], <<"id">>)[2])
                 /\ c.log[i].json = Some(addTaskCommentReplyBody(c.args))
            /\ Cardinality(posts) <= 1
            /\ c.pc = "done" => Cardinality(posts) = 1
            /\ Succeeded(c) => \A i \in posts : Accepted(c.log[i])
            /\ WritesOf(c.log) = {}
            /\ \A k \in Conversations :
                 k[2] # Get(Val(c.local.task), <<"conversationThreadId">>)[2]
                   => ~Exists(store, k)
            /\ \A k \in Conversations :
                 Exists(store, k) => Len(Get(Val(store[k]).doc, <<"threads">>)[2]) <= 2

\* add-task-comment with a comment that holds a double quote, on a task whose
\* conversation has two threads, ended in an error without posting a reply.
QuotedReplyNotPosted ==
    \E p \in Servers :
        /\ RepliesToConversation(call[p])
        /\ Len(ThreadsListed(call[p])) = 2
        /\ call[p].args.comment = <<"\"">>
        /\ Failed(call[p])
        /\ \A i \in DOMAIN call[p].log : call[p].log[i].method = "GET"

\* The conversation id the answer says: its conversationId, or its id when it
\* has no conversationId.
IdOfAnswer(answer) ==
    IF HasKey(answer, <<"conversationId">>) THEN Get(answer, <<"conversationId">>)
    ELSE Get(answer, <<"id">>)

RECURSIVE EntriesOf(_)
EntriesOf(threads) ==
    IF threads = <<>> THEN <<>>
    ELSE LET thread == Head(threads)
             posts == IF HasKey(thread, <<"posts">>) THEN Get(thread, <<"posts">>)[2] ELSE <<>>
         IN [i \in 1..Len(posts) |->
               JObj(<< <<<<"id">>, JStr(<<"p", ToString(i)>>)>>,
                       <<<<"threadId">>, Get(thread, <<"id">>)>>,
                       <<<<"content">>, Get(Get(posts[i], <<"body">>), <<"content">>)>>,
                       <<<<"contentType">>,
                         Get(Get(posts[i], <<"body">>), <<"contentType">>)>> >>)]
            \o EntriesOf(Tail(threads))

\* C25: a get-task-comments call that succeeds on a task with a conversation
\* returns one entry for each post of each thread, in the order of the thread
\* listing and, within a thread, of the post listing, each with the id of the
\* thread it was listed under.
CommentsInListingOrder ==
    \A p \in Servers :
        LET c == call[p] IN
        (/\ c.tool = "get-task-comments"
         /\ Succeeded(c)
         /\ Truthy(Val(c.local.task), <<"conversationThreadId">>))
          => Val(c.result).text = StringifyIndented(JArr(EntriesOf(ThreadsListed(c))), 0)

\* get-task-comments on the conversation of two threads returned three
\* entries: c and d of the thread listed first, then e of the other.
ThreeCommentsReturned ==
    \E p \in Servers :
        LET c == call[p]
            got == c.local.comments
        IN /\ c.tool = "get-task-comments"
           /\ Succeeded(c)
           /\ Val(c.result).text = StringifyIndented(JArr(got), 0)
           /\ Len(c.log) = 5
           /\ Len(got) = 3
           /\ Get(got[1], <<"content">>) = JStr(<<"c">>)
           /\ Get(got[2], <<"content">>) = JStr(<<"d">>)
           /\ Get(got[3], <<"content">>) = JStr(<<"e">>)
           /\ Get(got[2], <<"threadId">>) = JStr(ThreadIds[2])
           /\ Get(got[3], <<"threadId">>) = JStr(ThreadIds[1])

\* The assignment update-task sends for a user.
NewAssignment ==
    JObj(<< <<<<"@odata.type">>, JStr(<<"#microsoft.graph.plannerAssignment">>)>>,
            <<<<"orderHint">>, JStr(<<" ", "!">>)>> >>)

\* Server p's update-task, given a user id as assignUserId, sends its PATCH.
AssignSent(p) ==
    /\ call[p].tool = "update-task"
    /\ IsSome(call[p].given.assignUserId)
    /\ Val(call[p].given.assignUserId) # <<>>
    /\ call[p].pc = "write"
    /\ Len(call'[p].log) = Len(call[p].log) + 1

FirstReferences == Get(InitDetails, <<"references">>)

\* The references the task has now.
ReferencesNow == Get(Val(store[<<"taskDetails", <<"T1">>>>]).doc, <<"references">>)

\* Both calls sent their PATCH and both were applied.
AddedThenDeleted ==
    /\ call[1].tool = "add-reference" /\ Succeeded(call[1])
    /\ call[2].tool = "delete-reference" /\ Succeeded(call[2])
    /\ \E i \in WritesOf(call[1].log) : Accepted(call[1].log[i])
    /\ \E i \in WritesOf(call[2].log) : Accepted(call[2].log[i])

\* The keys of add-reference and delete-reference are the same for the same
\* URL and different for different URLs, and no reference other than the one
\* named is touched.
SameKeyOnlyForSameUrl ==
    /\ (call[1].tool = "add-reference" /\ call[2].tool = "delete-reference") =>
          \A k1 \in ReferenceKeysSent(call[1]) : \A k2 \in ReferenceKeysSent(call[2]) :
             (k1 = k2) <=> (call[1].args.url = call[2].args.url)
    /\ \A p \in Servers :
          call[p].tool \in {"add-reference", "delete-reference"} =>
             ReferenceKeysSent(call[p]) \subseteq {encodeUrlForReference(call[p].args.url)}
    /\ \A k \in KeysOf(FirstReferences) :
          (\A p \in Servers : k \notin ReferenceKeysSent(call[p]))
            => HasKey(ReferencesNow, k) /\ Get(ReferencesNow, k) = Get(FirstReferences, k)

\* After add-reference(T, u) and delete-reference(T, u) the task has the
\* references it had at first, each as it was.
RoundTripRestores ==
    (AddedThenDeleted /\ call[1].args.url = call[2].args.url)
      => /\ KeysOf(ReferencesNow) = KeysOf(FirstReferences)
         /\ \A k \in KeysOf(FirstReferences) : Get(ReferencesNow, k) = Get(FirstReferences, k)

GroupRequests(c) ==
    {i \in DOMAIN c.log :
        Len(c.log[i].url) >= 2
          /\ c.log[i].url[1] = "https://graph.microsoft.com/v1.0/groups/"}

\* The accepted GETs of a plan among the first n requests of the call c.
PlanGets(c, n) ==
    {i \in 1..n : c.log[i].method = "GET" /\ c.log[i].url = PlanUrl(<<"P1">>)
                    /\ Accepted(c.log[i])}

\* C29: a call begins holding nothing of an earlier call, and what it uses it
\* has looked up itself: the group of every request to a group is the one a
\* GET of the plan earlier in the same call answered, and the If-Match of
\* every write is the stamp a GET earlier in the same call answered.
NothingKeptBetweenCalls ==
    [][\A p \in Servers :
         /\ call'[p].log = <<>> =>
              /\ call'[p].local = NoLocals
              /\ call'[p].etag = None
         /\ \A i \in GroupRequests(call'[p]) :
              \E j \in PlanGets(call'[p], i - 1) :
                 <<call'[p].log[i].url[2]>>
                   = Get(Get(Val(call'[p].log[j].answer), <<"container">>),
                         <<"containerId">>)[2]
         /\ \A i \in WritesOf(call'[p].log) :
              \E j \in 1..(i - 1) :
                 /\ call'[p].log[j].method = "GET"
                 /\ call'[p].log[j].etag = call'[p].log[i].ifMatch]_vars

\* The second call of a server, a list-group-members after another call that
\* looked the group up, has fetched the plan itself and then the members.
GroupLookedUpAgain ==
    /\ ncalls = 2
    /\ call[1].tool = "list-group-members"
    /\ Succeeded(call[1])
    /\ Len(call[1].log) = 2
    /\ call[1].log[1].url = PlanUrl(<<"P1">>)
    /\ call[1].log[2].url = MembersUrl(<<"G1">>)

\* C30: for a tool that more than one of the three servers has, the servers
\* are equivalent: from the same state, with the same parameters and the same
\* answers of the upstream, getETag of the full server and getETag of a
\* server with fewer tools send the same request and leave the call holding
\* the same log, ETag and result, the rest of the handler being common.
VariantsEquivalent ==
    [][\A p \in Servers :
         (call[p].pc = "getETag" /\ call'[p] # call[p]) =>
            \A v \in Variants :
               call[p].tool \in VariantTools(v) =>
                  (GetETag(p) <=> GetETagOfVariant(p, v))]_vars

\* An update-task-details that all three servers have has fetched the ETag of
\* the details and made its write.
DetailsETagFetched ==
    /\ call[1].tool = "update-task-details"
    /\ call[1].tool \in LiteTools
    /\ Succeeded(call[1])
    /\ Len(call[1].log) = 2
    /\ call[1].log[1].method = "GET"
    /\ call[1].log[1].url = getETagUrl(call[1].args.taskId, TRUE)
    /\ call[1].log[1].url = ETagUrl("taskDetails", call[1].args.taskId)

\* The tools that make one read and nothing else, and the threads the call c
\* of get-task-comments has to go through.
PlainReads == ReadOnlyTools \ {"get-task-comments"}

ThreadsToRead(c) ==
    IF IsSome(c.local.task) /\ Truthy(Val(c.local.task), <<"conversationThreadId">>)
    THEN Len(ThreadsListed(c))
    ELSE 0

\* The requests a call may make: 1 for the tools in `single`, 2 for
\* list-group-members and for a guarded mutation, 5 for add-task-comment, 3
\* and one for each listed thread for get-task-comments.
RequestBound(c, single) ==
    CASE c.tool \in single -> 1
      [] c.tool = "list-group-members" -> 2
      [] c.tool \in GuardedTools -> 2
      [] c.tool = "add-task-comment" -> 5
      [] c.tool = "get-task-comments" -> 3 + ThreadsToRead(c)
      [] OTHER -> 0

\* Every call that was taken ends with a result or an error.
EveryCallEnds ==
    \A p \in {1} : (call[p].pc \notin {"idle", "done"}) ~> (call[p].pc = "done" /\ IsSome(call[p].result))

\* C31 as stated: every round trip returning, every call ends with a result
\* or an error, having made at most 1 request if it is a plain read (every
\* read-only tool but get-task-comments) or a create, 2 if a guarded mutation,
\* 5 if add-task-comment, 3 and the number of listed threads if
\* get-task-comments.
CallsEndWithinBounds ==
    /\ [](\A p \in Servers :
            Len(call[p].log) <= RequestBound(call[p], PlainReads \cup {"create-task"}))
    /\ EveryCallEnds

\* C31, list-group-members apart: every round trip returning, every call
\* ends with a result or an error, having made at most 1 request if it is a
\* plain read other than list-group-members or a create, 2 if
\* list-group-members or a guarded mutation, 5 if add-task-comment, 3 and the
\* number of listed threads if get-task-comments.
CallsEndWithinBoundsMembersTwo ==
    /\ [](\A p \in Servers :
            Len(call[p].log) <=
               RequestBound(call[p], (PlainReads \ {"list-group-members"}) \cup {"create-task"}))
    /\ EveryCallEnds

\* Calls that ended at their bounds: a list-group-members after its two
\* requests, the plan and the members.
MembersAfterTwoRequests ==
    /\ call[1].tool = "list-group-members"
    /\ Succeeded(call[1])
    /\ Len(call[1].log) = 2
    /\ call[1].log[1].url = PlanUrl(call[1].args.planId)
    /\ call[1].log[2].method = "GET"

\* The threads of the conversation that task T1 names, as the service holds
\* them.
ThreadsOfTask ==
    LET t == Val(store[<<"task", <<"T1">>>>]).doc
        k == <<"conversation", Get(t, <<"conversationThreadId">>)[2]>>
    IN IF Exists(store, <<"task", <<"T1">>>>) /\ Truthy(t, <<"conversationThreadId">>)
          /\ k \in DOMAIN store /\ Exists(store, k)
       THEN Get(Val(store[k]).doc, <<"threads">>)[2]
       ELSE <<>>

\* The conversation of T1 holds a post with content c.
CommentHeld(c) ==
    \E n \in 1..Len(ThreadsOfTask) :
        /\ HasKey(ThreadsOfTask[n], <<"posts">>)
        /\ \E i \in 1..Len(Get(ThreadsOfTask[n], <<"posts">>)[2]) :
              Get(Get(Get(ThreadsOfTask[n], <<"posts">>)[2][i], <<"body">>), <<"content">>)
                 = JStr(c)

\* The call c of add-task-comment ended in success without a warning, every
\* answer it was given naming the conversation of the thread it made.
AddedWithoutWarning(c) ==
    /\ c.tool = "add-task-comment"
    /\ Succeeded(c)
    /\ Val(c.result).text \in
         {Stringify(JObj(<< <<<<"success">>, JBool(TRUE)>>,
                            <<<<"message">>, JStr(<<"Comment added to existing thread">>)>> >>))}
         \cup {Stringify(JObj(<< <<<<"success">>, JBool(TRUE)>>,
                                 <<<<"message">>, JStr(<<"New conversation created">>)>>,
                                 <<<<"conversationId">>, JStr(ConversationIds[i])>> >>)) :
                 i \in 1..Len(ConversationIds)}

\* Once add-task-comment has returned success without a warning the
\* conversation of the task holds a post with the comment given.
AddedIsHeld(texts) ==
    \A c \in texts :
        (AddedWithoutWarning(call[1]) /\ call[1].given.comment = c /\ call[2].pc = "idle")
           => CommentHeld(c)

\* A post held stays held through later calls.
HeldStays(texts) == \A c \in texts : CommentHeld(c) => CommentHeld(c)'

\* A successful get-task-comments returns an entry for every post held.
HeldIsReturned(texts) ==
    \A c \in texts :
        (call[2].tool = "get-task-comments" /\ Succeeded(call[2]) /\ CommentHeld(c))
           => /\ \E i \in 1..Len(call[2].local.comments) :
                    Get(call[2].local.comments[i], <<"content">>) = JStr(c)
              /\ Val(call[2].result).text
                    = StringifyIndented(JArr(call[2].local.comments), 0)

\* C32: with no other writer, after add-task-comment(T, c) has returned
\* success without a warning, in either branch, a following
\* get-task-comments(T) returns a post with content c, and after any sequence
\* of such calls every comment added is returned.
CommentRoundTrip ==
    /\ []AddedIsHeld(Comments)
    /\ [][HeldStays(Comments)]_vars
    /\ []HeldIsReturned(Comments)

\* add-task-comment given two backslashes returned success without a warning
\* and the get-task-comments after it returned a post of one backslash, none
\* of two.
BackslashesHalved ==
    /\ AddedWithoutWarning(call[1])
    /\ call[1].given.comment = <<"\\", "\\">>
    /\ call[2].tool = "get-task-comments"
    /\ Succeeded(call[2])
    /\ \A i \in 1..Len(call[2].local.comments) :
          Get(call[2].local.comments[i], <<"content">>) # JStr(<<"\\", "\\">>)
    /\ \E i \in 1..Len(call[2].local.comments) :
          Get(call[2].local.comments[i], <<"content">>) = JStr(<<"\\">>)

\* Server p sends the write of its guarded tool, the resource carrying the
\* stamp that the token GET of this call, its last request, was answered with:
\* nothing wrote the resource since.
WriteInOwnWindow(p) ==
    /\ call[p].tool \in GuardedTools
    /\ call[p].pc = "write"
    /\ call[p].log # <<>>
    /\ call[p].log[Len(call[p].log)].method = "GET"
    /\ call[p].log[Len(call[p].log)].url = EndpointOf(TargetOf(call[p]))
    /\ IsSome(call[p].log[Len(call[p].log)].etag)
    /\ call[p].log[Len(call[p].log)].etag = Current(TargetOf(call[p]))
    /\ call'[p].pc = "done"

NoConversationNoComments ==
    \A p \in Servers :
        LET c == call[p] IN
        (/\ c.tool = "get-task-comments"
         /\ IsSome(c.local.task)
         /\ ~Truthy(Val(c.local.task), <<"conversationThreadId">>))
          => /\ Succeeded(c)
             /\ Val(c.result).text
                  = Stringify(JObj(<< <<<<"comments">>, JArr(<<>>)>>,
                                      <<<<"message">>, JStr(<<"No comments on this task">>)>> >>))
             /\ Len(c.log) = 1
             /\ c.log[1].method = "GET"
             /\ c.log[1].url = TaskUrl(c.args.taskId)
             /\ c.local.groupId = None
             /\ c.local.threads = <<>>

\* get-task-comments read a task without conversation and returned the empty
\* list.
EmptyListForNoConversation ==
    /\ call[1].tool = "get-task-comments"
    /\ IsSome(call[1].local.task)
    /\ ~HasKey(Val(call[1].local.task), <<"conversationThreadId">>)
    /\ Succeeded(call[1])
    /\ Len(call[1].log) = 1
    /\ Accepted(call[1].log[1])

\* The call c of add-task-comment read a task that names a conversation.
CommentsOnConversation(c) ==
    /\ c.tool = "add-task-comment"
    /\ IsSome(c.local.task)
    /\ Truthy(Val(c.local.task), <<"conversationThreadId">>)

\* The requests of the call c that are not GETs.
NonGets(c) == {i \in 1..Len(c.log) : c.log[i].method # "GET"}

\* C35: add-task-comment on a task that names a conversation leaves the task
\* record alone: it reads the task once, fetches no token after that, sends
\* no PATCH and no DELETE, its only write is one POST of the reply, and no
\* step of it changes the task as the service holds it, conversation
\* reference and version stamp included.
ReplyLeavesTaskAlone ==
    /\ [](\A p \in Servers :
            CommentsOnConversation(call[p]) =>
               LET c == call[p] IN
               /\ Cardinality(GetsOf(c.log, TaskUrl(c.args.taskId))) = 1
               /\ c.etag = None
               /\ WritesOf(c.log) = {}
               /\ Cardinality(NonGets(c)) <= 1
               /\ \A i \in NonGets(c) :
                     /\ c.log[i].method = "POST"
                     /\ c.log[i].url = ReplyUrl(Val(c.local.groupId),
                                                Get(Val(c.local.task),
                                                    <<"conversationThreadId">>)[2],
                                                Val(c.local.threadId))
               /\ Succeeded(c) => Cardinality(NonGets(c)) = 1)
    /\ [][\A p \in Servers :
            (CommentsOnConversation(call[p]) /\ call'[p] # call[p])
               => store'[<<"task", call[p].args.taskId>>]
                     = store[<<"task", call[p].args.taskId>>]]_vars

\* add-task-comment replied on the conversation of its task, and the task is
\* as the call read it: the same conversation, the same stamp.
RepliedTaskUntouched ==
    /\ CommentsOnConversation(call[1])
    /\ Succeeded(call[1])
    /\ Len(call[1].log) = 4
    /\ call[1].log[4].method = "POST"
    /\ Accepted(call[1].log[4])
    /\ call[1].log[1].etag = Current(<<"task", call[1].args.taskId>>)
    /\ Get(Val(store[<<"task", call[1].args.taskId>>]).doc, <<"conversationThreadId">>)
          = Get(Val(call[1].local.task), <<"conversationThreadId">>)

\* Server p's add-checklist-item runs its PATCH command, which is accepted and
\* prints nothing.
ItemAddedSilently(p) ==
    /\ call[p].tool = "add-checklist-item"
    /\ call[p].pc = "write"
    /\ call'[p].pc = "done"
    /\ Len(call'[p].log) = Len(call[p].log) + 1
    /\ Accepted(call'[p].log[Len(call'[p].log)])
    /\ call'[p].log[Len(call'[p].log)].answer = None

====
